---- MODULE Spec2Model ----
(***************************************************************************)
(* Model of the content moderation service of sentiment-analysis/app.py:  *)
(* the rule taxonomy and its matcher, the two sentiment providers, the     *)
(* context-aware intent analysis, the risk score, and the request          *)
(* handlers /analyze, /moderate, /batch-moderate and /batch-analyze.       *)
(*                                                                         *)
(* Texts are TLA+ strings; the regular expressions of the taxonomy and     *)
(* the substring tests of the code are evaluated on their characters.      *)
(* Floating-point quantities (confidences, scores) are fixed-point         *)
(* integers in units of 1/Scale.                                           *)
(***************************************************************************)
EXTENDS Integers, Sequences, FiniteSets, TLC

(***************************************************************************)
(* Bounds of the model.                                                    *)
(***************************************************************************)
\* a request text is made of at most MaxClauses clauses
MaxClauses == 2
\* a batch request carries at most MaxBatch elements
MaxBatch == 2

\* scores and confidences are rounded to 4 decimals: the unit is 1/10000
Scale == 10000

(***************************************************************************)
(* Characters and strings.                                                 *)
(***************************************************************************)
Letters ==
    {"a","b","c","d","e","f","g","h","i","j","k","l","m",
     "n","o","p","q","r","s","t","u","v","w","x","y","z"}

Digits == {"0","1","2","3","4","5","6","7","8","9"}

\* \w of the regular expressions (ASCII)
WordChars == Letters \cup Digits \cup {"_"}

\* \s of the regular expressions, and the characters str.strip() removes
Whitespace == {" ", "\t", "\n"}

Ch(t, i) == SubSeq(t, i, i)

Min(a, b) == IF a <= b THEN a ELSE b

Max(a, b) == IF a >= b THEN a ELSE b

Abs(a) == IF a >= 0 THEN a ELSE -a

\* str.lower() on one character
LowerChar(c) ==
    CASE c = "A" -> "a" [] c = "B" -> "b" [] c = "C" -> "c" [] c = "D" -> "d"
      [] c = "E" -> "e" [] c = "F" -> "f" [] c = "G" -> "g" [] c = "H" -> "h"
      [] c = "I" -> "i" [] c = "J" -> "j" [] c = "K" -> "k" [] c = "L" -> "l"
      [] c = "M" -> "m" [] c = "N" -> "n" [] c = "O" -> "o" [] c = "P" -> "p"
      [] c = "Q" -> "q" [] c = "R" -> "r" [] c = "S" -> "s" [] c = "T" -> "t"
      [] c = "U" -> "u" [] c = "V" -> "v" [] c = "W" -> "w" [] c = "X" -> "x"
      [] c = "Y" -> "y" [] c = "Z" -> "z" [] OTHER -> c

\* str.lower(): every character lower-cased, the text taken by halves
RECURSIVE Lower(_)
Lower(t) ==
    IF Len(t) = 0 THEN ""
    ELSE IF Len(t) = 1 THEN LowerChar(t)
    ELSE Lower(SubSeq(t, 1, Len(t) \div 2)) \o Lower(SubSeq(t, Len(t) \div 2 + 1, Len(t)))

\* every character of t[a..b] is in the class cls (true of an empty range)
AllIn(t, a, b, cls) == \A k \in a..b : Ch(t, k) \in cls

\* no character of t[a..b] is a newline: what '.' of a regular expression spans
NoNewline(t, a, b) == \A k \in a..b : Ch(t, k) # "\n"

\* str.strip(): the text without its leading and trailing whitespace
Strip(t) ==
    LET keep == {k \in 1..Len(t) : Ch(t, k) \notin Whitespace}
    IN  IF keep = {} THEN ""
        ELSE LET a == CHOOSE k \in keep : \A j \in keep : k <= j
                 b == CHOOSE k \in keep : \A j \in keep : k >= j
             IN  SubSeq(t, a, b)

\* the string w occurs in t at position i
OccursAt(t, w, i) ==
    /\ i >= 1
    /\ i + Len(w) - 1 <= Len(t)
    /\ SubSeq(t, i, i + Len(w) - 1) = w

\* Python's  w in t
Contains(t, w) == \E i \in 1..(Len(t) - Len(w) + 1) : OccursAt(t, w, i)

IsWordAt(t, i) == i >= 1 /\ i <= Len(t) /\ Ch(t, i) \in WordChars

\* \b between the characters i and i+1 of t (i = 0: start, i = Len(t): end)
Boundary(t, i) == IsWordAt(t, i) # IsWordAt(t, i + 1)

\* the positions i with a \b just before the character i
BoundariesBefore(t) == {i \in 1..Len(t) : Boundary(t, i - 1)}

\* the positions where '$' matches without re.MULTILINE: the end of the text,
\* and just before a final newline
EndAnchors(t) ==
    {Len(t)} \cup (IF Len(t) >= 1 /\ Ch(t, Len(t)) = "\n" THEN {Len(t) - 1} ELSE {})

(***************************************************************************)
(* The regular expressions of SYSTEM_TAG_PATTERNS, by shape.  A pattern is *)
(* a record; re_search(pattern, t) is re.search(pattern, t, IGNORECASE)    *)
(* on a lower-cased text t.                                                *)
(***************************************************************************)

\* the ends e of the matches t[i..e] of an alternative: a literal, or two
\* literals with  .*  between them
AltEnds(t, alt, i) ==
    IF ~OccursAt(t, alt[1], i) THEN {}
    ELSE IF Len(alt) = 1 THEN {i + Len(alt[1]) - 1}
    ELSE {j + Len(alt[2]) - 1 : j \in
             {j \in (i + Len(alt[1]))..Len(t) :
                 /\ OccursAt(t, alt[2], j)
                 /\ NoNewline(t, i + Len(alt[1]), j - 1)}}

\*  \b(alt|alt|...)\b
MatchWords(t, alts) ==
    \E i \in BoundariesBefore(t) : \E alt \in alts :
        \E e \in AltEnds(t, alt, i) : Boundary(t, e)

\*  \b(alt|alt|...)\b$
MatchWordsAtEnd(t, alts) ==
    \E i \in BoundariesBefore(t) : \E alt \in alts :
        \E e \in AltEnds(t, alt, i) : Boundary(t, e) /\ e \in EndAnchors(t)

\*  \b(head \d+|...).*\b(tail|...)\b
MatchNumbered(t, heads, tails) ==
    \E i \in BoundariesBefore(t) : \E h \in heads :
        /\ OccursAt(t, h, i)
        /\ \E k \in (i + Len(h))..Len(t) :
              /\ AllIn(t, i + Len(h), k, Digits)
              /\ \E w \in tails : \E j \in (k + 1)..Len(t) :
                    /\ OccursAt(t, w, j)
                    /\ NoNewline(t, k + 1, j - 1)
                    /\ Boundary(t, j - 1)
                    /\ Boundary(t, j + Len(w) - 1)

\* no character of t[a..b] is in the class cls
NoneIn(t, a, b, cls) == \A k \in a..b : Ch(t, k) \notin cls

\* one  http[s]?://[^\s]+  starting at i: the set of its possible ends
UrlEnds(t, i) ==
    LET from(p) == {e \in (i + Len(p))..Len(t) : NoneIn(t, i + Len(p), e, Whitespace)}
    IN  (IF OccursAt(t, "http://", i) THEN from("http://") ELSE {})
        \cup (IF OccursAt(t, "https://", i) THEN from("https://") ELSE {})

\* the least number of repetitions of the link group:  {3,}
MinLinks == 3

\* the ends of n consecutive links, the first starting at i
RECURSIVE LinkRunEnds(_, _, _)
LinkRunEnds(t, i, n) ==
    IF n = 0 THEN {i - 1}
    ELSE UNION {LinkRunEnds(t, e + 1, n - 1) : e \in UrlEnds(t, i)}

\*  (http[s]?://[^\s]+){3,}
MatchLinks(t) == \E i \in 1..Len(t) : LinkRunEnds(t, i, MinLinks) # {}

\* the least number of repetitions of the back-reference:  \1{10,}
MinRepeats == 10

\*  (.)\1{10,}
MatchRepeated(t) ==
    \E i \in 1..(Len(t) - MinRepeats) :
        /\ Ch(t, i) # "\n"
        /\ \A k \in 1..MinRepeats : Ch(t, i + k) = Ch(t, i)

\* the longest text of  ^.{1,10}$
ShortLen == 10

\*  ^.{1,10}$
MatchShort(t) ==
    \E e \in EndAnchors(t) : e >= 1 /\ e <= ShortLen /\ NoNewline(t, 1, e)

\*  ^[^a-zA-Z]*$
MatchNoLetters(t) == NoneIn(t, 1, Len(t), Letters)

\*  \b\d{3}-\d{3}-\d{4}\b
MatchPhone(t) ==
    \E i \in 1..(Len(t) - 11) :
        /\ Boundary(t, i - 1)
        /\ AllIn(t, i, i + 2, Digits)
        /\ Ch(t, i + 3) = "-"
        /\ AllIn(t, i + 4, i + 6, Digits)
        /\ Ch(t, i + 7) = "-"
        /\ AllIn(t, i + 8, i + 11, Digits)
        /\ Boundary(t, i + 11)

\*  \b[A-Za-z0-9._%+-]+@[A-Za-z0-9.-]+\.[A-Z|a-z]{2,}\b
MatchEmail(t) ==
    \E a \in 2..Len(t) :
        /\ Ch(t, a) = "@"
        /\ \E s \in 1..(a - 1) :
              /\ AllIn(t, s, a - 1, Letters \cup Digits \cup {".", "_", "%", "+", "-"})
              /\ Boundary(t, s - 1)
        /\ \E d \in (a + 2)..Len(t) :
              /\ Ch(t, d) = "."
              /\ AllIn(t, a + 1, d - 1, Letters \cup Digits \cup {".", "-"})
              /\ \E e \in (d + 2)..Len(t) :
                    /\ AllIn(t, d + 1, e, Letters \cup {"|"})
                    /\ Boundary(t, e)

\*  \b\d{1,5}\s+\w+\s+(street|st|...)\b
MatchAddress(t, kinds) ==
    \E w \in kinds : \E q \in 1..Len(t) :
        /\ OccursAt(t, w, q)
        /\ Boundary(t, q + Len(w) - 1)
        /\ \E n \in 1..(q - 2) :
              /\ AllIn(t, n + 1, q - 1, Whitespace)
              /\ \E m \in 1..(n - 1) :
                    /\ AllIn(t, m + 1, n, WordChars)
                    /\ \E k \in 1..(m - 1) :
                          /\ AllIn(t, k + 1, m, Whitespace)
                          /\ \E i \in 1..k :
                                /\ k - i + 1 <= 5
                                /\ AllIn(t, i, k, Digits)
                                /\ Boundary(t, i - 1)

\* re.search(pattern, t, re.IGNORECASE) for a pattern of the taxonomy
re_search(pattern, t) ==
    CASE pattern.kind = "words"      -> MatchWords(t, pattern.alts)
      [] pattern.kind = "words_end"  -> MatchWordsAtEnd(t, pattern.alts)
      [] pattern.kind = "numbered"   -> MatchNumbered(t, pattern.heads, pattern.tails)
      [] pattern.kind = "links"      -> MatchLinks(t)
      [] pattern.kind = "repeated"   -> MatchRepeated(t)
      [] pattern.kind = "short"      -> MatchShort(t)
      [] pattern.kind = "no_letters" -> MatchNoLetters(t)
      [] pattern.kind = "phone"      -> MatchPhone(t)
      [] pattern.kind = "email"      -> MatchEmail(t)
      [] pattern.kind = "address"    -> MatchAddress(t, pattern.alts)

(***************************************************************************)
(* The taxonomy: category -> tag -> patterns, in declaration order (a      *)
(* Python dict keeps its insertion order).                                 *)
(***************************************************************************)
SYSTEM_TAG_PATTERNS ==
    <<
    [category |-> "ContentWarning", tags |-> <<
      [tag |-> "NSFW", patterns |-> <<
        [kind |-> "words", alts |-> {<<"nsfw">>, <<"not safe for work">>, <<"adult content">>, 
             <<"explicit">>, <<"sexual">>, <<"nude">>, <<"naked">>, 
             <<"porn">>, <<"xxx">>}],
        [kind |-> "words", alts |-> {<<"18+">>, <<"mature content">>, <<"adult only">>}] >>],
      [tag |-> "Violence", patterns |-> <<
        [kind |-> "words", alts |-> {<<"violence">>, <<"violent">>, <<"kill">>, <<"murder">>, 
             <<"death">>, <<"blood">>, <<"gore">>, <<"fight">>, 
             <<"attack">>, <<"assault">>, <<"weapon">>, <<"gun">>, 
             <<"knife">>, <<"bomb">>}],
        [kind |-> "words", alts |-> {<<"war">>, <<"battle">>, <<"shooting">>, <<"stabbing">>, 
             <<"beating">>, <<"torture">>}] >>],
      [tag |-> "Sensitive", patterns |-> <<
        [kind |-> "words", alts |-> {<<"trigger">>, <<"triggering">>, <<"sensitive">>, 
             <<"depression">>, <<"anxiety">>, <<"suicide">>, 
             <<"self harm">>, <<"mental health">>}],
        [kind |-> "words", alts |-> {<<"trauma">>, <<"ptsd">>, <<"abuse">>, <<"eating disorder">>, 
             <<"addiction">>}] >>],
      [tag |-> "Spoiler", patterns |-> <<
        [kind |-> "words", alts |-> {<<"spoiler">>, <<"spoilers">>, <<"plot twist">>, 
             <<"ending">>, <<"finale">>, <<"dies">>, <<"death scene">>}],
        [kind |-> "numbered", heads |-> {"season ", "episode ", "chapter "},
         tails |-> {"reveal", "reveals", "twist", "surprise"}] >>] >>],
    [category |-> "Violation", tags |-> <<
      [tag |-> "Harassment", patterns |-> <<
        [kind |-> "words", alts |-> {<<"harass">>, <<"harassment">>, <<"bully">>, <<"bullying">>, 
             <<"intimidate">>, <<"threaten">>, <<"stalk">>, 
             <<"stalking">>}],
        [kind |-> "words", alts |-> {<<"you suck">>, <<"kill yourself">>, <<"kys">>, <<"loser">>, 
             <<"idiot">>, <<"stupid">>, <<"moron">>}] >>],
      [tag |-> "Hate Speech", patterns |-> <<
        [kind |-> "words", alts |-> {<<"hate">>, <<"racist">>, <<"racism">>, <<"sexist">>, 
             <<"sexism">>, <<"homophobic">>, <<"transphobic">>, 
             <<"bigot">>, <<"nazi">>}],
        [kind |-> "words", alts |-> {<<"slur">>, <<"offensive">>, <<"discriminat">>, 
             <<"prejudice">>}] >>],
      [tag |-> "Misinformation", patterns |-> <<
        [kind |-> "words", alts |-> {<<"fake news">>, <<"conspiracy">>, <<"hoax">>, <<"lie">>, 
             <<"lies">>, <<"false">>, <<"misinformation">>, 
             <<"disinformation">>}],
        [kind |-> "words", alts |-> {<<"covid", "fake">>, <<"vaccine", "dangerous">>, 
             <<"election", "stolen">>}] >>] >>],
    [category |-> "Quality", tags |-> <<
      [tag |-> "Spam", patterns |-> <<
        [kind |-> "words", alts |-> {<<"buy now">>, <<"click here">>, <<"free money">>, 
             <<"get rich">>, <<"make money fast">>, <<"limited time">>}],
        [kind |-> "words", alts |-> {<<"viagra">>, <<"casino">>, <<"lottery">>, <<"winner">>, 
             <<"congratulations", "won">>}],
        [kind |-> "links"],
        [kind |-> "repeated"] >>],
      [tag |-> "Low Quality", patterns |-> <<
        [kind |-> "short"],
        [kind |-> "no_letters"],
        [kind |-> "words_end", alts |-> {<<"first">>, <<"second">>, <<"third">>, <<"fourth">>, 
             <<"fifth">>}] >>] >>],
    [category |-> "Safety", tags |-> <<
      [tag |-> "Self Harm", patterns |-> <<
        [kind |-> "words", alts |-> {<<"suicide">>, <<"kill myself">>, <<"end it all">>, 
             <<"self harm">>, <<"cut myself">>, <<"overdose">>, 
             <<"jump off">>}],
        [kind |-> "words", alts |-> {<<"want to die">>, <<"better off dead">>, 
             <<"no point living">>, <<"end my life">>}] >>],
      [tag |-> "Doxxing", patterns |-> <<
        [kind |-> "phone"],
        [kind |-> "email"],
        [kind |-> "address", alts |-> {"street", "st", "avenue", "ave", "road", 
             "rd", "drive", "dr", "lane", "ln", 
             "boulevard", "blvd"}],
        [kind |-> "words", alts |-> {<<"home address">>, <<"phone number">>, 
             <<"social security">>, <<"ssn">>, <<"credit card">>}] >>] >>]
    >>

(***************************************************************************)
(* State: the capability flags the module initialisation sets, and the     *)
(* request in hand with its response.                                      *)
(***************************************************************************)
VARIABLES
    sentiment_models_available, \* VADER and TextBlob loaded (vader_analyzer is not None)
    spacy_available,            \* the spaCy model loaded (nlp is not None)
    tag_patterns,               \* the module global SYSTEM_TAG_PATTERNS as it is now
    pc,                         \* "idle"; "done": a response is ready to be sent;
                                \* "sents": the intent analysis is in its loop
    request,                    \* the request the response answers
    response,                   \* the response of the handler
    invoked,                    \* the analyses ("patterns", "intent") and the sentiment
                                \* providers the handler invoked, in order
    doc,                        \* the sentences of the text under intent analysis
    sent_no,                    \* how many of them the loop has processed
    intent_flags,               \* intent_flags of analyze_intent_with_context
    flags_before,               \* intent_flags before the last sentence processed
    threads,                    \* the locals of the handler each server thread runs
    scan                        \* the locals of analyze_content_patterns in its loop

vars == <<sentiment_models_available, spacy_available, tag_patterns, pc, request,
          response, invoked, doc, sent_no, intent_flags, flags_before, threads, scan>>

(***************************************************************************)
(* JSON values a request can carry where a text is expected.               *)
(***************************************************************************)
JStr(s) == [kind |-> "str", str |-> s]

JNull == [kind |-> "null"]

JNum(n) == [kind |-> "num", num |-> n]

JList(items) == [kind |-> "list", items |-> items]

\* a field the payload does not have
Missing == [kind |-> "missing"]

IsStr(v) == v.kind = "str"

\* Python's truth value of a JSON value:  not v  is  ~Truthy(v)
Truthy(v) ==
    CASE v.kind = "str"  -> v.str # ""
      [] v.kind = "num"  -> v.num # 0
      [] v.kind = "null" -> FALSE

\* the outcome of an expression that raised an exception
Raised == [raised |-> TRUE]

IsRaised(r) == "raised" \in DOMAIN r

(***************************************************************************)
(* The inputs of the model.                                                *)
(***************************************************************************)
\* the clauses request texts are made of
Clauses ==
    {"I love this great community",
     "I hate you",
     "I don't hate you",
     "call me at 555-123-4567",
     "you stupid racist idiot, what a hoax",
     "i will kill you",
     "http://a.co http://b.co http://c.co",
     "aaaaaaaaaa"}

\* the texts of n clauses, each clause a sentence of its own
RECURSIVE TextsOf(_)
TextsOf(n) ==
    IF n = 1 THEN Clauses
    ELSE {t \o ". " \o c : t \in TextsOf(n - 1), c \in Clauses}

\* texts in which a negated sentence takes back most or all of the confidence
\* an asserted one has given
TakenBackTexts ==
    {"I hate you. I would never hate or despise you",
     "I hate you. I would never hate, despise or loathe you"}

\* texts with several words of the lists of the lexicon provider, with the
\* same number of words of both lists, and with one word repeated
LexiconTexts ==
    {"good great excellent amazing love",
     "bad awful terrible horrible hate",
     "good and bad",
     "good good good"}

Texts == UNION {TextsOf(n) : n \in 1..MaxClauses} \cup TakenBackTexts \cup LexiconTexts

\* the texts that are empty after trimming
BlankTexts == {"", "  "}

\* what a request can carry as its text
TextValues ==
    {JStr(t) : t \in Texts \cup BlankTexts} \cup {Missing, JNull, JNum(123)}

\* the polarity signals of the external libraries, in [-1, 1]
Polarities == {-Scale, -(Scale \div 10), 0, Scale \div 10, Scale}

\* The code combines the signals in double precision, the model exactly.
\* For these signals the double-precision sum, 0.09999999999999999 in
\* magnitude, is on the other side of the threshold 0.1 than the exact one;
\* the exact arithmetic does not describe the code on them.
RoundedSignals == {<<Scale \div 10, Scale \div 10>>, <<-(Scale \div 10), -(Scale \div 10)>>}

\* signals whose combination is the threshold, in double precision too
ThresholdSignals ==
    {<<-((2 * Scale) \div 10), (8 * Scale) \div 10>>,
     <<(2 * Scale) \div 10, -((8 * Scale) \div 10)>>}

\* what the external sentiment libraries can do during a call
ExtOutcomes ==
    {[raises |-> TRUE, vader |-> 0, blob |-> 0]}
    \cup {[raises |-> FALSE, vader |-> p[1], blob |-> p[2]] :
             p \in {q \in Polarities \X Polarities :
                        /\ q[2] \in {0, q[1]}
                        /\ q \notin RoundedSignals}
                   \cup ThresholdSignals}

\* the elements of the batch requests, each with the behaviour of the
\* external libraries on it
BatchExts ==
    {[raises |-> TRUE, vader |-> 0, blob |-> 0],
     [raises |-> FALSE, vader |-> Scale, blob |-> Scale],
     [raises |-> FALSE, vader |-> -Scale, blob |-> 0]}

BatchTexts ==
    {"I love this great community", "I hate you", "call me at 555-123-4567"}

NoExt == [raises |-> FALSE, vader |-> 0, blob |-> 0]

BatchElements(exts) ==
    {[text |-> JStr(t), ext |-> e] : t \in BatchTexts, e \in exts}
    \cup {[text |-> v, ext |-> NoExt] :
             v \in {JStr(""), JStr("  "), JNull, JNum(0), JNum(123)}}

Batches(exts) == UNION {[1..n -> BatchElements(exts)] : n \in 0..MaxBatch}

\* the "texts" fields of the batch requests that are no list
NoLists == {Missing, JNull, JStr("I hate you")}

\* every text of the model
AllTexts == Texts \cup BlankTexts \cup BatchTexts

(***************************************************************************)
(* analyze_content_patterns                                                *)
(***************************************************************************)
\* a faulty variant of scan_patterns, which goes on after a match and
\* appends the tag once for every matching pattern
RECURSIVE scan_patterns_no_break(_, _, _, _)
scan_patterns_no_break(tag_name, patterns, t, k) ==
    IF k > Len(patterns) THEN <<>>
    ELSE (IF re_search(patterns[k], t) THEN <<tag_name>> ELSE <<>>)
         \o scan_patterns_no_break(tag_name, patterns, t, k + 1)

\* the inner loop over the patterns of one tag, from pattern k: what it
\* appends to category_matches (the tag once, at the first match, then break)
RECURSIVE scan_patterns(_, _, _, _)
scan_patterns(tag_name, patterns, t, k) ==
    IF k > Len(patterns) THEN <<>>
    ELSE IF re_search(patterns[k], t) THEN <<tag_name>>
    ELSE scan_patterns(tag_name, patterns, t, k + 1)

\* the loop over the tags of one category, from tag k: category_matches
RECURSIVE scan_tags(_, _, _)
scan_tags(tags, t, k) ==
    IF k > Len(tags) THEN <<>>
    ELSE scan_patterns(tags[k].tag, tags[k].patterns, t, 1) \o scan_tags(tags, t, k + 1)

\* the loop over the categories, from category k: the entries of matches
RECURSIVE scan_categories(_, _, _)
scan_categories(taxonomy, t, k) ==
    IF k > Len(taxonomy) THEN <<>>
    ELSE LET category_matches == scan_tags(taxonomy[k].tags, t, 1)
         IN  (IF category_matches # <<>>
              THEN <<[category |-> taxonomy[k].category,
                      tags |-> category_matches]>>
              ELSE <<>>)
             \o scan_categories(taxonomy, t, k + 1)

\* the dict category -> list of matched tags, as the sequence of its
\* entries, for the taxonomy as the module defines it
content_patterns(text) == scan_categories(SYSTEM_TAG_PATTERNS, Lower(text), 1)

\* The analyses are functions of the text and of what the module defines.
\* Their values on the texts of the model are computed once and looked up
\* afterwards.
PatternsOf == [t \in AllTexts |-> content_patterns(t)]

\* analyze_content_patterns reads the module global
analyze_content_patterns(text) ==
    IF tag_patterns = SYSTEM_TAG_PATTERNS /\ text \in AllTexts THEN PatternsOf[text]
    ELSE scan_categories(tag_patterns, Lower(text), 1)

\* the keys of a pattern result
Categories(pattern_matches) ==
    {pattern_matches[k].category : k \in 1..Len(pattern_matches)}

(***************************************************************************)
(* The sentiment providers                                                 *)
(***************************************************************************)
positive_words ==
    {"good", "great", "excellent", "amazing", "wonderful", "fantastic", "awesome",
     "love", "like", "enjoy", "happy", "pleased", "satisfied", "perfect", "best",
     "brilliant", "outstanding", "superb", "magnificent", "incredible", "beautiful"}

negative_words ==
    {"bad", "terrible", "awful", "horrible", "disgusting", "hate", "dislike",
     "angry", "frustrated", "disappointed", "worst", "pathetic", "useless",
     "stupid", "ridiculous", "annoying", "irritating", "boring", "ugly"}

\* a faulty variant of lexicon_sentiment, which leaves the cap of the
\* confidence out
lexicon_uncapped(text) ==
    LET text_lower == Lower(text)
        positive_count == Cardinality({w \in positive_words : Contains(text_lower, w)})
        negative_count == Cardinality({w \in negative_words : Contains(text_lower, w)})
        confidence == (6 * Scale) \div 10
                      + (Abs(positive_count - negative_count) * Scale) \div 10
    IN  IF positive_count > negative_count
        THEN [label |-> "POSITIVE", score |-> confidence, confidence |-> confidence,
              source |-> "pattern_based"]
        ELSE IF negative_count > positive_count
        THEN [label |-> "NEGATIVE", score |-> confidence, confidence |-> confidence,
              source |-> "pattern_based"]
        ELSE [label |-> "NEUTRAL", score |-> Scale \div 2, confidence |-> Scale \div 2,
              source |-> "pattern_based"]

\* the lexicon provider on a string
lexicon_sentiment(text) ==
    LET text_lower == Lower(text)
        positive_count == Cardinality({w \in positive_words : Contains(text_lower, w)})
        negative_count == Cardinality({w \in negative_words : Contains(text_lower, w)})
    IN  IF positive_count > negative_count
        THEN LET confidence ==
                     Min((6 * Scale) \div 10 + ((positive_count - negative_count) * Scale) \div 10,
                         (9 * Scale) \div 10)
             IN  [label |-> "POSITIVE", score |-> confidence, confidence |-> confidence,
                  source |-> "pattern_based"]
        ELSE IF negative_count > positive_count
        THEN LET confidence ==
                     Min((6 * Scale) \div 10 + ((negative_count - positive_count) * Scale) \div 10,
                         (9 * Scale) \div 10)
             IN  [label |-> "NEGATIVE", score |-> confidence, confidence |-> confidence,
                  source |-> "pattern_based"]
        ELSE [label |-> "NEUTRAL", score |-> Scale \div 2, confidence |-> Scale \div 2,
              source |-> "pattern_based"]

LexiconOf == [t \in AllTexts |-> lexicon_sentiment(t)]

\* analyze_sentiment_patterns; text.lower() raises on a value that is no string
analyze_sentiment_patterns(v) ==
    IF ~IsStr(v) THEN Raised
    ELSE IF v.str \in AllTexts THEN LexiconOf[v.str]
    ELSE lexicon_sentiment(v.str)

\* a faulty variant of combine_signals, which leaves the thresholds
\* themselves to the neutral range
combine_signals_strict(ext) ==
    LET combined_score == (ext.vader * 7 + ext.blob * 3) \div 10
        confidence == Min(Abs(combined_score) + Scale \div 2, (95 * Scale) \div 100)
        neutral == Scale \div 2 + (3 * (Scale - Abs(combined_score))) \div 10
    IN  IF combined_score > Scale \div 10
        THEN [label |-> "POSITIVE", score |-> confidence, confidence |-> confidence,
              source |-> "vader_textblob"]
        ELSE IF combined_score < -(Scale \div 10)
        THEN [label |-> "NEGATIVE", score |-> confidence, confidence |-> confidence,
              source |-> "vader_textblob"]
        ELSE [label |-> "NEUTRAL", score |-> neutral, confidence |-> neutral,
              source |-> "vader_textblob"]

\* the result of the external provider from the two polarity signals
\* ext.vader (VADER's compound score) and ext.blob (TextBlob's polarity)
combine_signals(ext) ==
    LET vader_compound == ext.vader
        textblob_polarity == ext.blob
        combined_score == (vader_compound * 7 + textblob_polarity * 3) \div 10
    IN  IF combined_score >= Scale \div 10
        THEN LET confidence == Min(Abs(combined_score) + Scale \div 2, (95 * Scale) \div 100)
             IN  [label |-> "POSITIVE", score |-> confidence, confidence |-> confidence,
                  source |-> "vader_textblob"]
        ELSE IF combined_score <= -(Scale \div 10)
        THEN LET confidence == Min(Abs(combined_score) + Scale \div 2, (95 * Scale) \div 100)
             IN  [label |-> "NEGATIVE", score |-> confidence, confidence |-> confidence,
                  source |-> "vader_textblob"]
        ELSE LET confidence == Scale \div 2 + (3 * (Scale - Abs(combined_score))) \div 10
             IN  [label |-> "NEUTRAL", score |-> confidence, confidence |-> confidence,
                  source |-> "vader_textblob"]

empty_text_result ==
    [label |-> "NEUTRAL", score |-> Scale \div 2, confidence |-> Scale \div 2,
     source |-> "empty_text"]

\* a faulty variant of analyze_sentiment_with_ai, which answers a failure of
\* the external libraries with the neutral result instead of the fallback
sentiment_without_fallback(v, ext) ==
    LET fallback(before) ==
            [result |-> analyze_sentiment_patterns(v),
             invoked |-> before \o <<"lexicon">>]
    IN  IF sentiment_models_available
        THEN IF ~Truthy(v) THEN [result |-> empty_text_result, invoked |-> <<>>]
             ELSE IF ~IsStr(v) THEN fallback(<<>>)
             ELSE IF Len(Strip(v.str)) = 0
                  THEN [result |-> empty_text_result, invoked |-> <<>>]
             ELSE IF ext.raises
                  THEN [result |-> empty_text_result, invoked |-> <<"external">>]
             ELSE [result |-> combine_signals(ext), invoked |-> <<"external">>]
        ELSE fallback(<<>>)

\* analyze_sentiment_with_ai on the value v, where the external libraries
\* behave as ext says (ext.raises: they raise; else their two signals).
\* The outcome: the result (or Raised) and the providers invoked, in order.
analyze_sentiment_with_ai(v, ext) ==
    LET fallback(before) ==
            [result |-> analyze_sentiment_patterns(v),
             invoked |-> before \o <<"lexicon">>]
    IN  IF sentiment_models_available
        THEN IF ~Truthy(v) THEN [result |-> empty_text_result, invoked |-> <<>>]
             ELSE IF ~IsStr(v) THEN fallback(<<>>)
             ELSE IF Len(Strip(v.str)) = 0
                  THEN [result |-> empty_text_result, invoked |-> <<>>]
             ELSE IF ext.raises THEN fallback(<<"external">>)
             ELSE [result |-> combine_signals(ext), invoked |-> <<"external">>]
        ELSE fallback(<<>>)

\* the sentiment a handler uses when include_sentiment is false
default_sentiment == [label |-> "NEUTRAL", score |-> Scale \div 2, confidence |-> Scale \div 2]

(***************************************************************************)
(* get_content_risk_score                                                  *)
(***************************************************************************)
risk_weights ==
    [ContentWarning |-> (2 * Scale) \div 10,
     Violation      |-> (8 * Scale) \div 10,
     Quality        |-> (4 * Scale) \div 10,
     Safety         |-> Scale]

\* the contributions of the entries k.. of the pattern result
RECURSIVE pattern_contribution(_, _)
pattern_contribution(pattern_matches, k) ==
    IF k > Len(pattern_matches) THEN 0
    ELSE (IF pattern_matches[k].category \in DOMAIN risk_weights
          THEN (Len(pattern_matches[k].tags) * risk_weights[pattern_matches[k].category]) \div 10
          ELSE 0)
         + pattern_contribution(pattern_matches, k + 1)

sentiment_contribution(sentiment_result) ==
    IF sentiment_result.label = "NEGATIVE"
    THEN (sentiment_result.confidence * 4) \div 10
    ELSE IF sentiment_result.label = "POSITIVE"
    THEN -((sentiment_result.confidence * 1) \div 10)
    ELSE 0

\* the risk level get_content_risk_score derives from its score
score_level(risk_score) ==
    IF risk_score >= (8 * Scale) \div 10 THEN "HIGH"
    ELSE IF risk_score >= (5 * Scale) \div 10 THEN "MEDIUM"
    ELSE IF risk_score >= (2 * Scale) \div 10 THEN "LOW"
    ELSE "MINIMAL"

\* the cap of the risk score:  min(base_score, 1.0)
cap_score(base_score) == Min(base_score, Scale)

get_content_risk_score(sentiment_result, pattern_matches) ==
    LET base_score == sentiment_contribution(sentiment_result)
                      + pattern_contribution(pattern_matches, 1)
        risk_score == cap_score(base_score)
    IN  [risk_score |-> risk_score, risk_level |-> score_level(risk_score)]

(***************************************************************************)
(* analyze_intent_with_context                                             *)
(***************************************************************************)
intent_categories == <<"violence", "harassment", "hate", "threat">>

problematic_terms ==
    [violence   |-> <<"kill", "murder", "attack", "violence", "hurt", "harm", "beat", "fight">>,
     harassment |-> <<"harass", "bully", "stalk", "intimidate", "threaten">>,
     hate       |-> <<"hate", "despise", "loathe", "detest">>,
     threat     |-> <<"will kill", "going to hurt", "watch out", "you're dead">>]

negation_words == {"not", "never", "don't", "won't", "wouldn't", "can't", "cannot", "no"}

initial_intent_flags ==
    [c \in {intent_categories[k] : k \in 1..Len(intent_categories)} |->
        [detected |-> FALSE, confidence |-> 0, context |-> ""]]

\* doc.sents: the sentences of the text.  A sentence ends at a '.', '!' or
\* '?' that is followed by whitespace or ends the text.
SentenceBreaks(text) ==
    {i \in 1..Len(text) :
        /\ Ch(text, i) \in {".", "!", "?"}
        /\ (i = Len(text) \/ Ch(text, i + 1) \in Whitespace)}

RECURSIVE SentsFrom(_, _)
SentsFrom(text, a) ==
    IF a > Len(text) THEN <<>>
    ELSE LET later == {i \in SentenceBreaks(text) : i >= a}
             b == IF later = {} THEN Len(text)
                  ELSE CHOOSE i \in later : \A j \in later : i <= j
             sent == SubSeq(text, a, b)
         IN  (IF Strip(sent) = "" THEN <<>> ELSE <<sent>>) \o SentsFrom(text, b + 1)

Sents(text) == SentsFrom(text, 1)

\* has_negation of a sentence
has_negation(sent_text) == \E neg \in negation_words : Contains(sent_text, neg)

\* a faulty variant of negated_update, which treats the negated match as an
\* assertion; the negation properties must reject it
negated_as_asserted(flag, sent) ==
    [detected   |-> TRUE,
     confidence |-> Min(Scale, flag.confidence + (7 * Scale) \div 10),
     context    |-> "Asserted: '" \o Strip(sent) \o "'"]

\* a faulty variant of negated_update, which takes the detection back
negated_clears_detected(flag, sent) ==
    [detected   |-> FALSE,
     confidence |-> Max(0, flag.confidence - (3 * Scale) \div 10),
     context    |-> "Negated: '" \o Strip(sent) \o "'"]

\* the update of a term match in a sentence that carries a negation
negated_update(flag, sent) ==
    [detected   |-> flag.detected,
     confidence |-> Max(0, flag.confidence - (3 * Scale) \div 10),
     context    |-> "Negated: '" \o Strip(sent) \o "'"]

\* the update of a term match in a sentence that carries no negation
asserted_update(flag, sent) ==
    [detected   |-> TRUE,
     confidence |-> Min(Scale, flag.confidence + (7 * Scale) \div 10),
     context    |-> "Asserted: '" \o Strip(sent) \o "'"]

\* a faulty variant of term_step, which applies the update of a match twice
term_step_twice(flags, sent, sent_text, negated, category, term) ==
    IF Contains(sent_text, term)
    THEN IF negated
         THEN [flags EXCEPT ![category] = negated_update(negated_update(@, sent), sent)]
         ELSE [flags EXCEPT ![category] = asserted_update(asserted_update(@, sent), sent)]
    ELSE flags

\* the body of the loop over the terms for one term of one category, in a
\* sentence sent with lower-cased text sent_text and negation flag negated
term_step(flags, sent, sent_text, negated, category, term) ==
    IF Contains(sent_text, term)
    THEN IF negated
         THEN [flags EXCEPT ![category] = negated_update(@, sent)]
         ELSE [flags EXCEPT ![category] = asserted_update(@, sent)]
    ELSE flags

\* the loop over the terms of one category, from term k
RECURSIVE terms_loop(_, _, _, _, _, _)
terms_loop(flags, sent, sent_text, negated, category, k) ==
    IF k > Len(problematic_terms[category]) THEN flags
    ELSE terms_loop(term_step(flags, sent, sent_text, negated, category,
                              problematic_terms[category][k]),
                    sent, sent_text, negated, category, k + 1)

\* the loop over the categories for one sentence, from category c
RECURSIVE categories_loop(_, _, _, _, _)
categories_loop(flags, sent, sent_text, negated, c) ==
    IF c > Len(intent_categories) THEN flags
    ELSE categories_loop(terms_loop(flags, sent, sent_text, negated, intent_categories[c], 1),
                         sent, sent_text, negated, c + 1)

\* the body of  for sent in doc.sents
sentence_step(flags, sent) ==
    LET sent_text == Lower(sent)
    IN  categories_loop(flags, sent, sent_text, has_negation(sent_text), 1)

\* the loop over the sentences, from sentence k
RECURSIVE sentences_loop(_, _, _)
sentences_loop(flags, sents, k) ==
    IF k > Len(sents) THEN flags
    ELSE sentences_loop(sentence_step(flags, sents[k]), sents, k + 1)

\* a faulty variant of max_confidence_of, which reports the confidence of the
\* first category
first_confidence_of(flags) == flags[intent_categories[1]].confidence

\* max(flag["confidence"] for flag in intent_flags.values())
max_confidence_of(flags) ==
    CHOOSE m \in {flags[c].confidence : c \in DOMAIN flags} :
        \A c \in DOMAIN flags : flags[c].confidence <= m

\* the detected categories, in the order of the dict
RECURSIVE detected_from(_, _)
detected_from(flags, c) ==
    IF c > Len(intent_categories) THEN <<>>
    ELSE (IF flags[intent_categories[c]].detected THEN <<intent_categories[c]>> ELSE <<>>)
         \o detected_from(flags, c + 1)

overall_risk_of(max_confidence) ==
    IF max_confidence > (6 * Scale) \div 10 THEN "HIGH"
    ELSE IF max_confidence > (3 * Scale) \div 10 THEN "MEDIUM"
    ELSE "LOW"

\* the result built from the final flags
intent_result(flags) ==
    LET max_confidence == max_confidence_of(flags)
        detected_intents == detected_from(flags, 1)
    IN  [intent_analysis_available |-> TRUE,
         overall_risk     |-> overall_risk_of(max_confidence),
         confidence       |-> max_confidence,
         detected_intents |-> detected_intents,
         intent_details   |-> flags]

intent_unavailable == [intent_analysis_available |-> FALSE]

\* the flags after the loop over the sentences of the text
final_intent_flags(text) == sentences_loop(initial_intent_flags, Sents(text), 1)

IntentFlagsOf == [t \in AllTexts |-> final_intent_flags(t)]

intent_flags_of(text) ==
    IF text \in AllTexts THEN IntentFlagsOf[text] ELSE final_intent_flags(text)

\* a faulty variant of analyze_intent_with_context, which answers a failure
\* of spaCy with the result of an analysis that found nothing
intent_hiding_failure(text, nlp_raises) ==
    IF ~spacy_available THEN intent_unavailable
    ELSE IF nlp_raises THEN intent_result(initial_intent_flags)
    ELSE intent_result(intent_flags_of(text))

\* analyze_intent_with_context; nlp_raises: spaCy raises on this text
analyze_intent_with_context(text, nlp_raises) ==
    IF ~spacy_available THEN intent_unavailable
    ELSE IF nlp_raises THEN intent_unavailable
    ELSE intent_result(intent_flags_of(text))

(***************************************************************************)
(* The request handlers.  A request carries the JSON payload and, as the   *)
(* environment of the call, what the external libraries do during it:      *)
(* ext (VADER and TextBlob) and nlp_raises (spaCy).  A handler's outcome   *)
(* is its response and the sentiment providers it invoked.                 *)
(***************************************************************************)
bad_request(message) == [status |-> 400, error |-> message]

internal_error == [status |-> 500, error |-> "Internal server error"]

\* the "sentiment" object of a response
sentiment_view(sentiment_result) ==
    [label      |-> sentiment_result.label,
     confidence |-> sentiment_result.confidence,
     source     |-> IF "source" \in DOMAIN sentiment_result
                    THEN sentiment_result.source ELSE "unknown"]

\* risk_score >= 0.5
review_threshold(risk_score) == risk_score >= (5 * Scale) \div 10

\* the level moderate_content derives from the final score
final_level(final_risk_score) ==
    IF final_risk_score >= (7 * Scale) \div 10 THEN "HIGH"
    ELSE IF final_risk_score >= (4 * Scale) \div 10 THEN "MEDIUM"
    ELSE IF final_risk_score >= (2 * Scale) \div 10 THEN "LOW"
    ELSE "MINIMAL"

\* a faulty variant of combine_intent, which takes the override path for
\* every available intent analysis (intent_risk >= 0 for intent_risk > 0.3)
combine_intent_override_any(risk_score, intent_analysis) ==
    IF intent_analysis.intent_analysis_available
    THEN [final_risk_score |-> Max(risk_score, intent_analysis.confidence),
          requires_review  |-> TRUE]
    ELSE [final_risk_score |-> risk_score,
          requires_review  |-> review_threshold(risk_score)]

\* a faulty variant of combine_intent, which caps the score whenever the
\* intent confidence is 0, detected categories or not
combine_intent_cap_detected(risk_score, intent_analysis) ==
    IF ~intent_analysis.intent_analysis_available
    THEN [final_risk_score |-> risk_score,
          requires_review  |-> review_threshold(risk_score)]
    ELSE IF intent_analysis.confidence > (3 * Scale) \div 10
    THEN [final_risk_score |-> Max(risk_score, intent_analysis.confidence),
          requires_review  |-> TRUE]
    ELSE IF intent_analysis.confidence = 0
    THEN [final_risk_score |-> Min(risk_score, (3 * Scale) \div 10),
          requires_review  |-> review_threshold(risk_score)]
    ELSE [final_risk_score |-> risk_score,
          requires_review  |-> review_threshold(risk_score)]

\* the combination of the pattern score with the intent analysis:
\* final_risk_score and requires_review
combine_intent(risk_score, intent_analysis) ==
    LET unchanged == [final_risk_score |-> risk_score,
                      requires_review  |-> review_threshold(risk_score)]
    IN  IF intent_analysis.intent_analysis_available
        THEN LET intent_risk == intent_analysis.confidence
                 detected_intents == intent_analysis.detected_intents
             IN  IF intent_risk > (3 * Scale) \div 10
                 THEN [final_risk_score |-> Max(risk_score, intent_risk),
                       requires_review  |-> TRUE]
                 ELSE IF intent_risk = 0 /\ detected_intents = <<>>
                 THEN [final_risk_score |-> Min(risk_score, (3 * Scale) \div 10),
                       requires_review  |-> unchanged.requires_review]
                 ELSE unchanged
        ELSE unchanged

\* the body of moderate_content for a non-empty string text
moderate_text(text, include_sentiment, ext, nlp_raises) ==
    LET pattern_matches == analyze_content_patterns(text)
        intent_analysis == analyze_intent_with_context(text, nlp_raises)
        sentiment_run == IF include_sentiment
                         THEN analyze_sentiment_with_ai(JStr(text), ext)
                         ELSE [result |-> default_sentiment, invoked |-> <<>>]
        sentiment_result == sentiment_run.result
        risk == get_content_risk_score(sentiment_result, pattern_matches)
        combined == combine_intent(risk.risk_score, intent_analysis)
        base == [status |-> 200,
                 text |-> text,
                 suggested_tags |-> pattern_matches,
                 intent_analysis |-> intent_analysis,
                 risk_assessment |->
                    [score |-> combined.final_risk_score,
                     level |-> final_level(combined.final_risk_score),
                     pattern_score |-> risk.risk_score,
                     intent_score |-> IF intent_analysis.intent_analysis_available
                                      THEN <<intent_analysis.confidence>> ELSE <<>>],
                 requires_review |-> combined.requires_review]
    IN  [response |-> IF include_sentiment
                      THEN base @@ [sentiment |-> sentiment_view(sentiment_result)]
                      ELSE base,
         invoked |-> <<"patterns", "intent">> \o sentiment_run.invoked]

\* a faulty variant of moderate_content, which does not reject a text that
\* is empty after trimming
moderate_unvalidated(data) ==
    IF data.text.kind = "missing"
    THEN [response |-> bad_request("Missing 'text' field in request"), invoked |-> <<>>]
    ELSE IF ~IsStr(data.text)
    THEN [response |-> internal_error, invoked |-> <<>>]
    ELSE moderate_text(data.text.str, data.include_sentiment, data.ext, data.nlp_raises)

\* moderate_content on the payload data
moderate_result(data) ==
    IF data.text.kind = "missing"
    THEN [response |-> bad_request("Missing 'text' field in request"), invoked |-> <<>>]
    ELSE IF ~IsStr(data.text)
    THEN [response |-> internal_error, invoked |-> <<>>]
    ELSE IF Strip(data.text.str) = ""
    THEN [response |-> bad_request("Text cannot be empty"), invoked |-> <<>>]
    ELSE moderate_text(data.text.str, data.include_sentiment, data.ext, data.nlp_raises)

\* analyze_sentiment on the payload data
analyze_result(data) ==
    IF data.text.kind = "missing"
    THEN [response |-> bad_request("Missing 'text' field in request"), invoked |-> <<>>]
    ELSE IF ~IsStr(data.text)
    THEN [response |-> internal_error, invoked |-> <<>>]
    ELSE IF Strip(data.text.str) = ""
    THEN [response |-> bad_request("Text cannot be empty"), invoked |-> <<>>]
    ELSE LET sentiment_run == analyze_sentiment_with_ai(data.text, data.ext)
         IN  [response |-> [status |-> 200, text |-> data.text.str]
                           @@ [sentiment  |-> sentiment_run.result.label,
                               confidence |-> sentiment_run.result.confidence,
                               source     |-> sentiment_run.result.source],
              invoked |-> sentiment_run.invoked]

\* the result of batch_moderate_content for an empty element
batch_empty_item(text, include_sentiment) ==
    LET base == [text |-> text,
                 suggested_tags |-> <<>>,
                 risk_assessment |-> [score |-> 0, level |-> "MINIMAL"],
                 requires_review |-> FALSE]
        empty_run == analyze_sentiment_with_ai(JStr(""), [raises |-> FALSE, vader |-> 0, blob |-> 0])
    IN  IF include_sentiment
        THEN [result |-> base @@ [sentiment |-> sentiment_view(empty_run.result)],
              invoked |-> empty_run.invoked]
        ELSE [result |-> base, invoked |-> <<>>]

\* the review decision of batch_moderate_content
batch_requires_review(risk_score, pattern_matches) ==
    \/ review_threshold(risk_score)
    \/ \E category \in Categories(pattern_matches) : category \in {"Violation", "Safety"}

\* the result of batch_moderate_content for a non-empty string element
batch_text_item(text, include_sentiment, ext) ==
    LET pattern_matches == analyze_content_patterns(text.str)
        sentiment_run == IF include_sentiment
                         THEN analyze_sentiment_with_ai(text, ext)
                         ELSE [result |-> default_sentiment, invoked |-> <<>>]
        sentiment_result == sentiment_run.result
        risk == get_content_risk_score(sentiment_result, pattern_matches)
        base == [text |-> text,
                 suggested_tags |-> pattern_matches,
                 risk_assessment |-> [score |-> risk.risk_score, level |-> risk.risk_level],
                 requires_review |-> batch_requires_review(risk.risk_score, pattern_matches)]
    IN  [result |-> IF include_sentiment
                    THEN base @@ [sentiment |-> sentiment_view(sentiment_result)]
                    ELSE base,
         invoked |-> <<"patterns">> \o sentiment_run.invoked]

\* one iteration of the loop of batch_moderate_content: the result appended
\* for the element, or Raised when the element has no strip()
batch_item(text, include_sentiment, ext) ==
    IF ~Truthy(text) THEN batch_empty_item(text, include_sentiment)
    ELSE IF ~IsStr(text) THEN Raised
    ELSE IF Strip(text.str) = "" THEN batch_empty_item(text, include_sentiment)
    ELSE batch_text_item(text, include_sentiment, ext)

\* the loop of batch_moderate_content from element k, with the results and
\* the invocations so far: the final results, or Raised.  batch_append is
\* the end of one iteration, item being the outcome of batch_item.
RECURSIVE batch_loop(_, _, _, _, _, _), batch_append(_, _, _, _, _, _, _)
\* a faulty variant of batch_append, which puts the new result in front of
\* the earlier ones; the order property must reject it
batch_prepend(texts, exts, include_sentiment, k, results, calls, item) ==
    IF IsRaised(item) THEN [raised |-> TRUE, invoked |-> calls]
    ELSE batch_loop(texts, exts, include_sentiment, k + 1,
                    <<item.result>> \o results, calls \o item.invoked)

batch_loop(texts, exts, include_sentiment, k, results, calls) ==
    IF k > Len(texts) THEN [results |-> results, invoked |-> calls]
    ELSE batch_append(texts, exts, include_sentiment, k, results, calls,
                      batch_item(texts[k], include_sentiment, exts[k]))

batch_append(texts, exts, include_sentiment, k, results, calls, item) ==
    IF IsRaised(item) THEN [raised |-> TRUE, invoked |-> calls]
    ELSE batch_loop(texts, exts, include_sentiment, k + 1,
                    Append(results, item.result), calls \o item.invoked)

\* the response of a batch handler from the outcome of its loop
batch_response(run) ==
    IF IsRaised(run)
    THEN [response |-> internal_error, invoked |-> run.invoked]
    ELSE [response |-> [status |-> 200, results |-> run.results],
          invoked |-> run.invoked]

\* batch_moderate_content on the payload data
batch_moderate_result(data) ==
    IF data.texts.kind = "missing"
    THEN [response |-> bad_request("Missing 'texts' field in request"), invoked |-> <<>>]
    ELSE IF data.texts.kind # "list"
    THEN [response |-> bad_request("'texts' must be an array"), invoked |-> <<>>]
    ELSE batch_response(batch_loop(data.texts.items, data.exts, data.include_sentiment,
                                   1, <<>>, <<>>))

\* the loop of batch_analyze_sentiment from element k; batch_analyze_append
\* is the end of one iteration, sentiment_run being the outcome of
\* analyze_sentiment_with_ai
RECURSIVE batch_analyze_loop(_, _, _, _, _), batch_analyze_append(_, _, _, _, _, _)
batch_analyze_loop(texts, exts, k, results, calls) ==
    IF k > Len(texts) THEN [results |-> results, invoked |-> calls]
    ELSE batch_analyze_append(texts, exts, k, results, calls,
                              analyze_sentiment_with_ai(texts[k], exts[k]))

batch_analyze_append(texts, exts, k, results, calls, sentiment_run) ==
    IF IsRaised(sentiment_run.result)
    THEN [raised |-> TRUE, invoked |-> calls \o sentiment_run.invoked]
    ELSE batch_analyze_loop(texts, exts, k + 1,
             Append(results,
                    [text       |-> texts[k],
                     sentiment  |-> sentiment_run.result.label,
                     confidence |-> sentiment_run.result.confidence,
                     source     |-> sentiment_run.result.source]),
             calls \o sentiment_run.invoked)

\* batch_analyze_sentiment on the payload data
batch_analyze_result(data) ==
    IF data.texts.kind = "missing"
    THEN [response |-> bad_request("Missing 'texts' field in request"), invoked |-> <<>>]
    ELSE IF data.texts.kind # "list" \/ Len(data.texts.items) = 0
    THEN [response |-> bad_request("texts must be a non-empty list"), invoked |-> <<>>]
    ELSE batch_response(batch_analyze_loop(data.texts.items, data.exts, 1, <<>>, <<>>))

(***************************************************************************)
(* The state machine: the module initialisation, then requests handled     *)
(* one at a time.                                                          *)
(***************************************************************************)
NoRequest == [endpoint |-> "none"]

NoResponse == [status |-> 0]

\* the locals of analyze_content_patterns when it does not run
NoScan == [text_lower |-> "", k |-> 0, matches |-> <<>>]

\* the threads of the server
Workers == {1, 2}

\* the locals of a thread that runs no handler
IdleFrame ==
    [pc |-> "idle", data |-> NoRequest, pattern_matches |-> <<>>,
     intent_analysis |-> <<>>, sentiment_result |-> <<>>,
     k |-> 0, results |-> <<>>, response |-> NoResponse]

\* the module initialisation: the outer try leaves both capabilities off when
\* it fails, the inner try turns only the intent analysis off
Init ==
    /\ \E models \in BOOLEAN, spacy \in BOOLEAN :
          /\ spacy => models
          /\ sentiment_models_available = models
          /\ spacy_available = spacy
    /\ tag_patterns = SYSTEM_TAG_PATTERNS
    /\ pc = "idle"
    /\ request = NoRequest
    /\ response = NoResponse
    /\ invoked = <<>>
    /\ doc = <<>>
    /\ sent_no = 0
    /\ intent_flags = initial_intent_flags
    /\ flags_before = initial_intent_flags
    /\ threads = [w \in Workers |-> IdleFrame]
    /\ scan = NoScan

\* a handler that consumes the taxonomy it has matched against
handle_consuming_taxonomy(data, outcome) ==
    /\ pc' = "done"
    /\ request' = data
    /\ response' = outcome.response
    /\ invoked' = outcome.invoked
    /\ tag_patterns' = IF tag_patterns = <<>> THEN <<>> ELSE Tail(tag_patterns)
    /\ UNCHANGED <<sentiment_models_available, spacy_available,
                   doc, sent_no, intent_flags, flags_before, threads, scan>>

\* a handler that gives up the external libraries once they have failed
handle_disabling_models(data, outcome) ==
    /\ pc' = "done"
    /\ request' = data
    /\ response' = outcome.response
    /\ invoked' = outcome.invoked
    /\ sentiment_models_available' =
          (sentiment_models_available
           /\ \A k \in 1..Len(outcome.invoked) : outcome.invoked[k] # "lexicon")
    /\ UNCHANGED <<spacy_available, tag_patterns,
                   doc, sent_no, intent_flags, flags_before, threads, scan>>

Handle(data, outcome) ==
    /\ pc' = "done"
    /\ request' = data
    /\ response' = outcome.response
    /\ invoked' = outcome.invoked
    /\ UNCHANGED <<sentiment_models_available, spacy_available, tag_patterns,
                   doc, sent_no, intent_flags, flags_before, threads, scan>>

\* the external libraries are called only for a sentiment analysis with the
\* models loaded, and spaCy only when it is loaded
ExtsFor(include_sentiment, exts) ==
    IF include_sentiment /\ sentiment_models_available THEN exts ELSE {NoExt}

NlpOutcomes == IF spacy_available THEN BOOLEAN ELSE {FALSE}

\* POST /analyze
analyze_sentiment ==
    /\ pc = "idle"
    /\ \E text \in TextValues, ext \in ExtsFor(TRUE, ExtOutcomes) :
          LET data == [endpoint |-> "analyze", text |-> text, ext |-> ext]
          IN  Handle(data, analyze_result(data))

\* POST /moderate
moderate_content ==
    /\ pc = "idle"
    /\ \E text \in TextValues, include_sentiment \in BOOLEAN, nlp_raises \in NlpOutcomes :
       \E ext \in ExtsFor(include_sentiment, ExtOutcomes) :
          LET data == [endpoint |-> "moderate", text |-> text,
                       include_sentiment |-> include_sentiment,
                       ext |-> ext, nlp_raises |-> nlp_raises]
          IN  Handle(data, moderate_result(data))

BatchData(endpoint, texts, exts, include_sentiment) ==
    [endpoint |-> endpoint, texts |-> texts, exts |-> exts,
     include_sentiment |-> include_sentiment]

\* the payloads of the batch requests
BatchPayloads(endpoint, include_sentiment) ==
    {BatchData(endpoint, JList([k \in DOMAIN batch |-> batch[k].text]),
               [k \in DOMAIN batch |-> batch[k].ext], include_sentiment) :
        batch \in Batches(ExtsFor(include_sentiment, BatchExts))}
    \cup {BatchData(endpoint, v, <<>>, include_sentiment) : v \in NoLists}

\* POST /batch-moderate
batch_moderate_content ==
    /\ pc = "idle"
    /\ \E include_sentiment \in BOOLEAN :
          \E data \in BatchPayloads("batch-moderate", include_sentiment) :
              Handle(data, batch_moderate_result(data))

\* POST /batch-analyze
batch_analyze_sentiment ==
    /\ pc = "idle"
    /\ \E data \in BatchPayloads("batch-analyze", TRUE) :
          Handle(data, batch_analyze_result(data))

\* the response is sent: the worker is free for the next request
send_response ==
    /\ pc = "done"
    /\ pc' = "idle"
    /\ request' = NoRequest
    /\ response' = NoResponse
    /\ invoked' = <<>>
    /\ UNCHANGED <<sentiment_models_available, spacy_available, tag_patterns,
                   doc, sent_no, intent_flags, flags_before, threads, scan>>

Next ==
    \/ analyze_sentiment
    \/ moderate_content
    \/ batch_moderate_content
    \/ batch_analyze_sentiment
    \/ send_response

Spec == Init /\ [][Next]_vars

(***************************************************************************)
(* The intent analysis on its own, one sentence of the loop at a time.     *)
(***************************************************************************)
\* sentences that carry several terms, several categories, or a negation
\* word inside another word
IntentClauses ==
    Clauses \cup {"I would never hurt or harm you",
                  "i will not kill you",
                  "kill yourself now",
                  "nobody should bully or threaten her"}

RECURSIVE IntentTextsOf(_)
IntentTextsOf(n) ==
    IF n = 1 THEN IntentClauses
    ELSE {t \o ". " \o c : t \in IntentTextsOf(n - 1), c \in IntentClauses}

IntentTexts == UNION {IntentTextsOf(n) : n \in 1..MaxClauses} \cup TakenBackTexts

\* analyze_intent_with_context is entered with spaCy loaded:  doc = nlp(text)
InitIntent ==
    /\ sentiment_models_available = TRUE
    /\ spacy_available = TRUE
    /\ tag_patterns = SYSTEM_TAG_PATTERNS
    /\ pc = "sents"
    /\ request = NoRequest
    /\ response = NoResponse
    /\ invoked = <<>>
    /\ \E text \in IntentTexts : doc = Sents(text)
    /\ sent_no = 0
    /\ intent_flags = initial_intent_flags
    /\ flags_before = initial_intent_flags
    /\ threads = [w \in Workers |-> IdleFrame]
    /\ scan = NoScan

\* one iteration of  for sent in doc.sents
next_sent ==
    /\ pc = "sents"
    /\ sent_no < Len(doc)
    /\ sent_no' = sent_no + 1
    /\ flags_before' = intent_flags
    /\ intent_flags' = sentence_step(intent_flags, doc[sent_no + 1])
    /\ UNCHANGED <<sentiment_models_available, spacy_available, tag_patterns, pc, request,
                   response, invoked, doc, threads, scan>>

\* the loop is over: the result is built and returned
return_intent ==
    /\ pc = "sents"
    /\ sent_no = Len(doc)
    /\ pc' = "done"
    /\ response' = intent_result(intent_flags)
    /\ UNCHANGED <<sentiment_models_available, spacy_available, tag_patterns, request, invoked,
                   doc, sent_no, intent_flags, flags_before, threads, scan>>

NextIntent ==
    \/ next_sent
    \/ return_intent

SpecIntent == InitIntent /\ [][NextIntent]_vars

(***************************************************************************)
(* analyze_content_patterns on its own, one category of the loop at a      *)
(* time.                                                                   *)
(***************************************************************************)
\* texts for the rules of the taxonomy: two rules of one tag, several tags
\* of one category, links with and without whitespace between them, runs of
\* ten and of eleven equal characters
RuleTexts ==
    {"12345",
     "Buy now, click here! You are the lottery winner",
     "kill yourself, you stupid racist bully. that is fake news",
     "i want to die. email me at a.b@mail.com",
     "spoiler: she dies in this violent war",
     "http://a.cohttp://b.cohttp://c.co and more",
     "see https://a.co and http://b.co and http://c.co for details",
     "this is sooooooooooo good for everybody",
     "this is soooooooooo good for everybody"}

PatternTexts == Clauses \cup LexiconTexts \cup TakenBackTexts \cup RuleTexts

\* analyze_content_patterns is entered:  text_lower = text.lower(); matches = {}
InitPatterns ==
    /\ sentiment_models_available = TRUE
    /\ spacy_available = TRUE
    /\ tag_patterns = SYSTEM_TAG_PATTERNS
    /\ pc = "scan"
    /\ request = NoRequest
    /\ response = NoResponse
    /\ invoked = <<>>
    /\ doc = <<>>
    /\ sent_no = 0
    /\ intent_flags = initial_intent_flags
    /\ flags_before = initial_intent_flags
    /\ threads = [w \in Workers |-> IdleFrame]
    /\ \E text \in PatternTexts :
          scan = [text_lower |-> Lower(text), k |-> 1, matches |-> <<>>]

\* one iteration of  for category, tags in SYSTEM_TAG_PATTERNS.items()
scan_category ==
    /\ pc = "scan"
    /\ scan.k <= Len(tag_patterns)
    /\ LET category_matches == scan_tags(tag_patterns[scan.k].tags, scan.text_lower, 1)
       IN  scan' = [scan EXCEPT
                      !.matches = IF category_matches # <<>>
                                  THEN Append(@, [category |-> tag_patterns[scan.k].category,
                                                  tags |-> category_matches])
                                  ELSE @,
                      !.k = @ + 1]
    /\ UNCHANGED <<sentiment_models_available, spacy_available, tag_patterns, pc,
                   request, response, invoked, doc, sent_no, intent_flags, flags_before,
                   threads>>

\* the loop is over:  return matches
return_matches ==
    /\ pc = "scan"
    /\ scan.k > Len(tag_patterns)
    /\ pc' = "done"
    /\ response' = [status |-> 200, matches |-> scan.matches]
    /\ UNCHANGED <<sentiment_models_available, spacy_available, tag_patterns,
                   request, invoked, doc, sent_no, intent_flags, flags_before,
                   threads, scan>>

NextPatterns == scan_category \/ return_matches

SpecPatterns == InitPatterns /\ [][NextPatterns]_vars

(***************************************************************************)
(* The handlers run by the threads of the server, one statement group at   *)
(* a time.  The module globals are shared; request, data and every name a  *)
(* handler assigns are local to the call.                                  *)
(***************************************************************************)
\* the payloads of the concurrent requests
ConcTexts == {JStr("I hate you"), JStr("i will kill you"), JStr("  "), JNull}

ConcExts ==
    {[raises |-> TRUE, vader |-> 0, blob |-> 0],
     [raises |-> FALSE, vader |-> -Scale, blob |-> 0]}

ConcLists ==
    {<<>>,
     <<JStr("I hate you")>>,
     <<JStr("call me at 555-123-4567"), JStr("I hate you")>>,
     <<JStr(""), JStr("I love this great community")>>,
     <<JStr("I hate you"), JNum(123)>>}

ConcPayloads ==
    {[endpoint |-> "analyze", text |-> text, ext |-> ext] :
        text \in ConcTexts, ext \in ExtsFor(TRUE, ConcExts)}
    \cup UNION {{[endpoint |-> "moderate", text |-> text,
                  include_sentiment |-> include_sentiment,
                  ext |-> ext, nlp_raises |-> nlp_raises] :
                    text \in ConcTexts, nlp_raises \in NlpOutcomes,
                    ext \in ExtsFor(include_sentiment, ConcExts)} :
                include_sentiment \in BOOLEAN}
    \cup UNION {{BatchData("batch-moderate", JList(texts),
                           [k \in DOMAIN texts |-> ext], include_sentiment) :
                    texts \in ConcLists, ext \in ExtsFor(include_sentiment, ConcExts)} :
                include_sentiment \in BOOLEAN}
    \cup {BatchData("batch-moderate", JNull, <<>>, TRUE)}

\* the module is initialised before the server takes requests
InitConc ==
    /\ \E models \in BOOLEAN, spacy \in BOOLEAN :
          /\ spacy => models
          /\ sentiment_models_available = models
          /\ spacy_available = spacy
    /\ tag_patterns = SYSTEM_TAG_PATTERNS
    /\ pc = "idle"
    /\ request = NoRequest
    /\ response = NoResponse
    /\ invoked = <<>>
    /\ doc = <<>>
    /\ sent_no = 0
    /\ intent_flags = initial_intent_flags
    /\ flags_before = initial_intent_flags
    /\ threads = [w \in Workers |-> IdleFrame]
    /\ scan = NoScan

\* a step of thread w changes its locals and nothing else
Step(w, frame) ==
    /\ threads' = [threads EXCEPT ![w] = frame]
    /\ UNCHANGED <<sentiment_models_available, spacy_available, tag_patterns, pc,
                   request, response, invoked, doc, sent_no, intent_flags, flags_before,
                   scan>>

Return(frame, result) == [frame EXCEPT !.pc = "done", !.response = result]

\* the payload carries a text the handlers analyse
HasText(data) == IsStr(data.text) /\ Strip(data.text.str) # ""

\* a thread takes a request and validates its payload
receive(w) ==
    /\ threads[w].pc = "idle"
    /\ \E data \in ConcPayloads :
          LET frame == [threads[w] EXCEPT !.data = data]
          IN  Step(w,
                CASE data.endpoint = "analyze" ->
                       IF HasText(data) THEN [frame EXCEPT !.pc = "sentiment"]
                       ELSE Return(frame, analyze_result(data).response)
                  [] data.endpoint = "moderate" ->
                       IF HasText(data) THEN [frame EXCEPT !.pc = "patterns"]
                       ELSE Return(frame, moderate_result(data).response)
                  [] data.endpoint = "batch-moderate" ->
                       IF data.texts.kind = "list"
                       THEN [frame EXCEPT !.pc = "element", !.k = 1]
                       ELSE Return(frame, batch_moderate_result(data).response))

\* a faulty variant of match_patterns, which keeps the matches in a name
\* every thread shares
match_patterns_shared(w) ==
    /\ threads[w].pc = "patterns"
    /\ LET matches == analyze_content_patterns(threads[w].data.text.str)
       IN  threads' = [v \in Workers |->
                          IF v = w
                          THEN [threads[v] EXCEPT !.pattern_matches = matches,
                                                  !.pc = "intent"]
                          ELSE [threads[v] EXCEPT !.pattern_matches = matches]]
    /\ UNCHANGED <<sentiment_models_available, spacy_available, tag_patterns, pc,
                   request, response, invoked, doc, sent_no, intent_flags, flags_before,
                   scan>>

\* moderate_content: pattern_matches = analyze_content_patterns(text)
match_patterns(w) ==
    /\ threads[w].pc = "patterns"
    /\ Step(w, [threads[w] EXCEPT
                  !.pattern_matches = analyze_content_patterns(threads[w].data.text.str),
                  !.pc = "intent"])

\* moderate_content: intent_analysis = analyze_intent_with_context(text)
analyze_intent(w) ==
    /\ threads[w].pc = "intent"
    /\ Step(w, [threads[w] EXCEPT
                  !.intent_analysis =
                      analyze_intent_with_context(threads[w].data.text.str,
                                                  threads[w].data.nlp_raises),
                  !.pc = "sentiment"])

\* sentiment_result = analyze_sentiment_with_ai(text), of analyze_sentiment
\* and of moderate_content
run_sentiment(w) ==
    /\ threads[w].pc = "sentiment"
    /\ LET data == threads[w].data
       IN  Step(w, [threads[w] EXCEPT
                      !.sentiment_result =
                          IF data.endpoint = "moderate" /\ ~data.include_sentiment
                          THEN default_sentiment
                          ELSE analyze_sentiment_with_ai(data.text, data.ext).result,
                      !.pc = "respond"])

\* the response moderate_content builds from its locals
moderate_response(text, include_sentiment, pattern_matches, intent_analysis, sentiment_result) ==
    LET risk == get_content_risk_score(sentiment_result, pattern_matches)
        combined == combine_intent(risk.risk_score, intent_analysis)
        base == [status |-> 200,
                 text |-> text,
                 suggested_tags |-> pattern_matches,
                 intent_analysis |-> intent_analysis,
                 risk_assessment |->
                    [score |-> combined.final_risk_score,
                     level |-> final_level(combined.final_risk_score),
                     pattern_score |-> risk.risk_score,
                     intent_score |-> IF intent_analysis.intent_analysis_available
                                      THEN <<intent_analysis.confidence>> ELSE <<>>],
                 requires_review |-> combined.requires_review]
    IN  IF include_sentiment
        THEN base @@ [sentiment |-> sentiment_view(sentiment_result)]
        ELSE base

\* the response analyze_sentiment builds from its locals
analyze_response(text, sentiment_result) ==
    [status |-> 200, text |-> text,
     sentiment  |-> sentiment_result.label,
     confidence |-> sentiment_result.confidence,
     source     |-> sentiment_result.source]

\* one iteration of the loop of batch_moderate_content
next_element(w) ==
    /\ threads[w].pc = "element"
    /\ threads[w].k <= Len(threads[w].data.texts.items)
    /\ LET data == threads[w].data
           k == threads[w].k
           item == batch_item(data.texts.items[k], data.include_sentiment, data.exts[k])
       IN  Step(w, IF IsRaised(item)
                   THEN Return(threads[w], internal_error)
                   ELSE [threads[w] EXCEPT !.results = Append(@, item.result),
                                           !.k = k + 1])

\* the handler returns its response
respond(w) ==
    /\ \/ threads[w].pc = "respond"
       \/ /\ threads[w].pc = "element"
          /\ threads[w].k > Len(threads[w].data.texts.items)
    /\ LET frame == threads[w]
           data == frame.data
       IN  Step(w, Return(frame,
                CASE data.endpoint = "analyze" ->
                       analyze_response(data.text.str, frame.sentiment_result)
                  [] data.endpoint = "moderate" ->
                       moderate_response(data.text.str, data.include_sentiment,
                                         frame.pattern_matches, frame.intent_analysis,
                                         frame.sentiment_result)
                  [] data.endpoint = "batch-moderate" ->
                       [status |-> 200, results |-> frame.results]))

\* the response is sent and the locals of the call are gone
finish(w) ==
    /\ threads[w].pc = "done"
    /\ Step(w, IdleFrame)

NextConc ==
    \E w \in Workers :
        \/ receive(w)
        \/ match_patterns(w)
        \/ analyze_intent(w)
        \/ run_sentiment(w)
        \/ next_element(w)
        \/ respond(w)
        \/ finish(w)

SpecConc == InitConc /\ [][NextConc]_vars

(***************************************************************************)
(* Properties.  A response is looked at in the state where the handler     *)
(* has produced it (pc = "done"), together with the request it answers.    *)
(***************************************************************************)
\* the handler of the endpoint has answered the request in hand
Answered(endpoint) == pc = "done" /\ request.endpoint = endpoint

\* ... with a 200 response
AnsweredOk(endpoint) == Answered(endpoint) /\ response.status = 200

\* the pattern result has an entry of one of the categories
HasCategory(pattern_matches, categories) ==
    \E category \in Categories(pattern_matches) : category \in categories

InUnitInterval(score) == 0 <= score /\ score <= Scale

\* C1: the risk score moderate returns, and the risk score of every element
\* of batch-moderate, lies in [0, 1] for every text, every sentiment result
\* and every intent result
C1_ScoreInUnitInterval ==
    /\ AnsweredOk("moderate") => InUnitInterval(response.risk_assessment.score)
    /\ AnsweredOk("batch-moderate") =>
          \A k \in 1..Len(response.results) :
              InUnitInterval(response.results[k].risk_assessment.score)

\* C2: a text whose pattern result has a Violation or a Safety category gets
\* requires_review = true from moderate, with or without intent analysis
C2_ViolationOrSafetyRequiresReview ==
    (AnsweredOk("moderate")
        /\ HasCategory(response.suggested_tags, {"Violation", "Safety"}))
    => response.requires_review

\* C3: without intent analysis moderate returns the pattern score as the
\* final score, and requires_review is true exactly when that score is at
\* least 0.5 or the pattern result has a Violation or Safety category
C3_ReviewWithoutIntent ==
    (AnsweredOk("moderate") /\ ~response.intent_analysis.intent_analysis_available)
    => /\ response.risk_assessment.score = response.risk_assessment.pattern_score
       /\ response.requires_review
            <=> \/ review_threshold(response.risk_assessment.score)
                \/ HasCategory(response.suggested_tags, {"Violation", "Safety"})

\* the intent override path of moderate: intent_risk > 0.3
OverrideTaken(risk_assessment) ==
    /\ risk_assessment.intent_score # <<>>
    /\ risk_assessment.intent_score[1] > (3 * Scale) \div 10

\* C4: with intent analysis moderate's requires_review is true exactly when
\* the final score (after the override or the cap) is at least 0.5 or the
\* override path was taken; a text capped to 0.3 does not require review
C4_ReviewFollowsFinalScore ==
    (AnsweredOk("moderate") /\ response.intent_analysis.intent_analysis_available)
    => (response.requires_review
          <=> \/ review_threshold(response.risk_assessment.score)
              \/ OverrideTaken(response.risk_assessment))

\* the lower-cased sentence has a trigger term of the category
HasTerm(sent_text, category) ==
    \E k \in 1..Len(problematic_terms[category]) :
        Contains(sent_text, problematic_terms[category][k])

\* the lower-cased sentence with its negation cues deleted, the leftmost
\* first and the longest of those that start at the same place
RECURSIVE without_negation(_)
without_negation(sent_text) ==
    IF ~has_negation(sent_text) THEN sent_text
    ELSE LET hits == {h \in (1..Len(sent_text)) \X negation_words :
                         OccursAt(sent_text, h[2], h[1])}
             cue == CHOOSE h \in hits :
                        \A g \in hits :
                            \/ h[1] < g[1]
                            \/ (h[1] = g[1] /\ Len(h[2]) >= Len(g[2]))
         IN  without_negation(SubSeq(sent_text, 1, cue[1] - 1)
                              \o SubSeq(sent_text, cue[1] + Len(cue[2]), Len(sent_text)))

\* the last sentence the loop processed carries a negation cue, and a
\* trigger term of the category
NegatedMatch(category) ==
    /\ sent_no >= 1
    /\ has_negation(Lower(doc[sent_no]))
    /\ HasTerm(Lower(doc[sent_no]), category)

\* C5: a sentence with a trigger term of a category and a negation cue never
\* sets detected for that category; the category's confidence after the
\* sentence is not higher than before it, and strictly lower than the
\* confidence the same sentence gives without the negation cue
C5_NegatedSentenceLowersConfidence ==
    \A category \in DOMAIN intent_flags :
        NegatedMatch(category) =>
            /\ intent_flags[category].detected => flags_before[category].detected
            /\ intent_flags[category].confidence <= flags_before[category].confidence
            /\ intent_flags[category].confidence
                 < sentence_step(flags_before,
                                 without_negation(Lower(doc[sent_no])))[category].confidence

\* C5's case: a negated match in a category an earlier sentence asserted, so
\* that the confidence has something to lose
C5_Witness ==
    \E category \in DOMAIN intent_flags :
        /\ NegatedMatch(category)
        /\ flags_before[category].confidence > 0
        /\ intent_flags[category].confidence < flags_before[category].confidence

\* the text has trigger-term matches, all of them in negated sentences
OnlyNegatedMatches(text) ==
    LET sents == Sents(text)
        matched == {k \in 1..Len(sents) :
                       \E category \in DOMAIN problematic_terms :
                           HasTerm(Lower(sents[k]), category)}
    IN  /\ matched # {}
        /\ \A k \in matched : has_negation(Lower(sents[k]))

OnlyNegatedOf == [t \in Texts |-> OnlyNegatedMatches(t)]

\* moderate has answered, with intent analysis, a text whose only
\* trigger-term matches are in negated sentences
NegatedTextModerated ==
    /\ AnsweredOk("moderate")
    /\ response.intent_analysis.intent_analysis_available
    /\ OnlyNegatedOf[response.text]

\* C6: with intent analysis, a text whose only trigger-term matches are in
\* negated sentences ends with detected = false in every category, and
\* moderate does not take the override path for it: review comes from the
\* pattern score alone and the final score is not above the pattern score
C6_NegatedTextNotOverridden ==
    NegatedTextModerated =>
        /\ response.intent_analysis.detected_intents = <<>>
        /\ \A category \in DOMAIN response.intent_analysis.intent_details :
               ~response.intent_analysis.intent_details[category].detected
        /\ ~OverrideTaken(response.risk_assessment)
        /\ response.requires_review
             => review_threshold(response.risk_assessment.pattern_score)
        /\ response.risk_assessment.score <= response.risk_assessment.pattern_score

\* C6's case: such a text, with tags of its own, moderated without review
C6_Witness ==
    /\ NegatedTextModerated
    /\ response.suggested_tags # <<>>
    /\ response.risk_assessment.pattern_score > 0
    /\ ~response.requires_review

\* an empty or whitespace-only text
IsBlankText(v) == IsStr(v) /\ Strip(v.str) = ""

\* an element that is no string and not null
IsNoString(v) == ~IsStr(v) /\ v.kind # "null"

\* the request in hand carries a list of texts
ListRequest(endpoint) == Answered(endpoint) /\ request.texts.kind = "list"

\* C7: for empty or whitespace-only text the sentiment operation returns
\* NEUTRAL, 0.5, "empty_text" and invokes neither the lexicon provider nor
\* the external provider, with external models available or not
C7_EmptyTextShortCircuits ==
    (ListRequest("batch-analyze")
        /\ request.texts.items # <<>>
        /\ \A k \in 1..Len(request.texts.items) : IsBlankText(request.texts.items[k]))
    => /\ response.status = 200
       /\ invoked = <<>>
       /\ \A k \in 1..Len(response.results) :
              /\ response.results[k].sentiment = "NEUTRAL"
              /\ response.results[k].confidence = Scale \div 2
              /\ response.results[k].source = "empty_text"

\* the result batch-moderate owes an empty element
empty_element_result(text, include_sentiment) ==
    LET base == [text |-> text,
                 suggested_tags |-> <<>>,
                 risk_assessment |-> [score |-> 0, level |-> "MINIMAL"],
                 requires_review |-> FALSE]
    IN  IF include_sentiment
        THEN base @@ [sentiment |-> [label |-> "NEUTRAL", confidence |-> Scale \div 2,
                                     source |-> "empty_text"]]
        ELSE base

\* C8: in batch-moderate every empty or whitespace-only element yields a
\* result with no tags, score 0, level MINIMAL, requires_review = false and,
\* when sentiment is requested, the sentiment NEUTRAL / 0.5 / "empty_text";
\* it never yields an error
C8_EmptyElementResult ==
    (ListRequest("batch-moderate")
        /\ \A k \in 1..Len(request.texts.items) : ~IsNoString(request.texts.items[k]))
    => /\ response.status = 200
       /\ Len(response.results) = Len(request.texts.items)
       /\ \A k \in 1..Len(request.texts.items) :
              IsBlankText(request.texts.items[k])
              => response.results[k]
                   = empty_element_result(request.texts.items[k], request.include_sentiment)

\* the response of batch-moderate to the texts, the external libraries
\* behaving on each as exts says
batch_moderate_response(texts, exts, include_sentiment) ==
    batch_moderate_result(BatchData("batch-moderate", JList(texts), exts,
                                    include_sentiment)).response

\* batch-moderate has answered a list in which every element is a string or
\* null
TextListModerated ==
    /\ ListRequest("batch-moderate")
    /\ \A k \in 1..Len(request.texts.items) : ~IsNoString(request.texts.items[k])

\* the elements another element of the list is replaced by
Replacements ==
    {e \in BatchElements(ExtsFor(request.include_sentiment, BatchExts)) :
        ~IsNoString(e.text)}

\* C9: batch-moderate returns one result per input text, in input order, and
\* the result at an index depends on the text at that index alone: it is the
\* result the text gets in a list of its own, and replacing any other
\* element, by an empty string or by another text, leaves it unchanged
C9_BatchResultsPerIndex ==
    TextListModerated =>
        LET texts == request.texts.items
            exts == request.exts
        IN  /\ response.status = 200
            /\ Len(response.results) = Len(texts)
            /\ \A k \in 1..Len(texts) :
                   /\ response.results[k].text = texts[k]
                   /\ response.results[k]
                        = batch_moderate_response(<<texts[k]>>, <<exts[k]>>,
                                                  request.include_sentiment).results[1]
                   /\ \A j \in (1..Len(texts)) \ {k}, e \in Replacements :
                          batch_moderate_response([texts EXCEPT ![j] = e.text],
                                                  [exts EXCEPT ![j] = e.ext],
                                                  request.include_sentiment).results[k]
                            = response.results[k]

\* C9's case: a list of two different elements, one of them empty, the other
\* a text with tags
C9_Witness ==
    /\ TextListModerated
    /\ Len(request.texts.items) = 2
    /\ IsBlankText(request.texts.items[1])
    /\ response.status = 200
    /\ response.results[2].suggested_tags # <<>>
    /\ response.results[1] # response.results[2]

\* a malformed element: empty, null, or not a string
IsMalformed(v) == IsBlankText(v) \/ ~IsStr(v)

\* the sequence without its element j
Remove(seq, j) == SubSeq(seq, 1, j - 1) \o SubSeq(seq, j + 1, Len(seq))

\* C10: batch-moderate does not fail as a whole because of one malformed
\* element: a list with a single malformed element (empty, null, or not a
\* string) gets one result per element, and the well-formed elements get the
\* results they get without the malformed one
C10_OneMalformedElementTolerated ==
    (ListRequest("batch-moderate")
        /\ Cardinality({k \in 1..Len(request.texts.items) :
                           IsMalformed(request.texts.items[k])}) = 1)
    => LET texts == request.texts.items
           m == CHOOSE k \in 1..Len(texts) : IsMalformed(texts[k])
           rest == batch_moderate_response(Remove(texts, m), Remove(request.exts, m),
                                           request.include_sentiment)
       IN  /\ response.status = 200
           /\ Len(response.results) = Len(texts)
           /\ \A k \in (1..Len(texts)) \ {m} :
                  response.results[k] = rest.results[IF k < m THEN k ELSE k - 1]

\* the external provider is called on the value and fails
ExternalFails(v, ext) ==
    /\ sentiment_models_available
    /\ IsStr(v)
    /\ Strip(v.str) # ""
    /\ ext.raises

\* the "sentiment" object the lexicon provider gives for the text
lexicon_view(v) == sentiment_view(analyze_sentiment_patterns(v))

\* a batch handler has answered a list in which every element is a string
\* or null
TextListAnswered(endpoint) ==
    /\ ListRequest(endpoint)
    /\ \A k \in 1..Len(request.texts.items) : ~IsNoString(request.texts.items[k])

\* the elements of the batch in hand on which the external provider fails
FailingItems ==
    {k \in 1..Len(request.texts.items) :
        ExternalFails(request.texts.items[k], request.exts[k])}

\* C11: when the external sentiment provider fails during a call, the call
\* returns the result of the lexicon provider for the same text and no
\* error; in a batch the failing item gets the lexicon result and every
\* item, the later ones included, still gets its result
C11_ExternalFailureFallsBack ==
    /\ (Answered("analyze") /\ ExternalFails(request.text, request.ext))
       => /\ response.status = 200
          /\ response.sentiment = lexicon_view(request.text).label
          /\ response.confidence = lexicon_view(request.text).confidence
          /\ response.source = "pattern_based"
    /\ (Answered("moderate") /\ request.include_sentiment
            /\ ExternalFails(request.text, request.ext))
       => /\ response.status = 200
          /\ response.sentiment = lexicon_view(request.text)
    /\ (TextListAnswered("batch-moderate") /\ request.include_sentiment)
       => /\ response.status = 200
          /\ Len(response.results) = Len(request.texts.items)
          /\ \A k \in FailingItems :
                 response.results[k].sentiment = lexicon_view(request.texts.items[k])
    /\ (TextListAnswered("batch-analyze") /\ request.texts.items # <<>>
            /\ FailingItems # {})
       => /\ response.status = 200
          /\ Len(response.results) = Len(request.texts.items)
          /\ \A k \in FailingItems :
                 /\ response.results[k].sentiment
                      = lexicon_view(request.texts.items[k]).label
                 /\ response.results[k].source = "pattern_based"

\* C11's case: a batch whose first item fails in the external provider and
\* whose second item is then analysed by the external provider
C11_Witness ==
    /\ TextListAnswered("batch-moderate")
    /\ request.include_sentiment
    /\ Len(request.texts.items) = 2
    /\ FailingItems = {1}
    /\ response.status = 200
    /\ response.results[1].sentiment.source = "pattern_based"
    /\ response.results[2].sentiment.source = "vader_textblob"
    /\ invoked = <<"patterns", "external", "lexicon", "patterns", "external">>

\* C12: analyze and moderate, called with a text that is empty after
\* trimming, fail with the invalid-input error, run no pattern, sentiment or
\* intent analysis, and return no assessment
C12_BlankTextRejected ==
    ((Answered("analyze") \/ Answered("moderate")) /\ IsBlankText(request.text))
    => /\ response = bad_request("Text cannot be empty")
       /\ response.status = 400
       /\ invoked = <<>>

\* C12's case: moderate has answered a whitespace-only text
C12_Witness ==
    /\ Answered("moderate")
    /\ IsBlankText(request.text)
    /\ request.text.str # ""
    /\ response.status = 400

\* moderate has answered a well-formed text while the intent capability was
\* not configured, or while the intent analysis raised an error
ModeratedWithoutIntent ==
    /\ Answered("moderate")
    /\ IsStr(request.text)
    /\ ~IsBlankText(request.text)
    /\ (~spacy_available \/ request.nlp_raises)

\* C13: when the intent capability is not configured, or the intent analysis
\* raises, the intent analysis reports available = false and moderate still
\* succeeds, with the pattern score as final score and no intent score
C13_IntentUnavailableIsNoError ==
    ModeratedWithoutIntent =>
        /\ response.status = 200
        /\ ~response.intent_analysis.intent_analysis_available
        /\ response.risk_assessment.score = response.risk_assessment.pattern_score
        /\ response.risk_assessment.intent_score = <<>>

\* C13's case: spaCy is loaded and raises on a text whose pattern score is
\* above the cap an intent analysis that found nothing would apply
C13_Witness ==
    /\ ModeratedWithoutIntent
    /\ spacy_available
    /\ response.status = 200
    /\ response.risk_assessment.score > (3 * Scale) \div 10

\* the level the canonical thresholds give a score
canonical_level(score) ==
    IF score >= (7 * Scale) \div 10 THEN "HIGH"
    ELSE IF score >= (4 * Scale) \div 10 THEN "MEDIUM"
    ELSE IF score >= (2 * Scale) \div 10 THEN "LOW"
    ELSE "MINIMAL"

\* C14: in every result of moderate and of batch-moderate the level is the
\* one the canonical thresholds give the score of the result: HIGH from 0.7,
\* MEDIUM from 0.4, LOW from 0.2, MINIMAL below
C14_LevelFollowsCanonicalThresholds ==
    /\ AnsweredOk("moderate")
       => response.risk_assessment.level
            = canonical_level(response.risk_assessment.score)
    /\ AnsweredOk("batch-moderate")
       => \A k \in 1..Len(response.results) :
              response.results[k].risk_assessment.level
                = canonical_level(response.results[k].risk_assessment.score)

\* the tags the taxonomy the module defines gives a text
startup_tags(v) == PatternsOf[v.str]

\* the elements of the batch in hand that are matched against the taxonomy
MatchedItems ==
    {k \in 1..Len(request.texts.items) :
        IsStr(request.texts.items[k]) /\ ~IsBlankText(request.texts.items[k])}

C16_StartupStateUnchanged ==
    [][/\ tag_patterns' = tag_patterns
       /\ sentiment_models_available' = sentiment_models_available
       /\ spacy_available' = spacy_available]_vars

\* a request on which the external libraries raised has been answered and
\* both capabilities are still on
C16_Witness ==
    /\ pc = "done"
    /\ response.status = 200
    /\ \E k \in 1..Len(invoked) : invoked[k] = "lexicon"
    /\ sentiment_models_available
    /\ spacy_available
    /\ tag_patterns = SYSTEM_TAG_PATTERNS

\* the response the handler returns for the payload when it runs alone
alone(data) ==
    CASE data.endpoint = "analyze" -> analyze_result(data).response
      [] data.endpoint = "moderate" -> moderate_result(data).response
      [] data.endpoint = "batch-moderate" -> batch_moderate_result(data).response

\* C17: concurrent moderate, analyze and batch-moderate calls are
\* independent: under every interleaving of their steps each call returns
\* the response it returns when it runs alone
C17_ConcurrentCallsIndependent ==
    \A w \in Workers :
        threads[w].pc = "done" => threads[w].response = alone(threads[w].data)

\* a moderate call has returned its response while another moderate call,
\* on another text with other matches, is between its analyses and its
\* response
C17_Witness ==
    /\ threads[1].pc = "done"
    /\ threads[1].data.endpoint = "moderate"
    /\ threads[1].response.status = 200
    /\ threads[2].pc = "respond"
    /\ threads[2].data.endpoint = "moderate"
    /\ threads[2].data.text # threads[1].data.text
    /\ threads[2].pattern_matches # threads[1].response.suggested_tags
    /\ threads[2].intent_analysis # threads[1].response.intent_analysis

\* moderate has answered with an intent analysis in its response
ModeratedWithIntent ==
    /\ AnsweredOk("moderate")
    /\ response.intent_analysis.intent_analysis_available

\* C18: with intent analysis available the final score of moderate is
\* max(pattern score, intent score) when the intent score is above 0.3,
\* min(pattern score, 0.3) when the intent score is 0 and no category was
\* detected, and the pattern score in every other case
C18_FinalScoreThreeCases ==
    ModeratedWithIntent
    => LET pattern_score == response.risk_assessment.pattern_score
           intent_score == response.risk_assessment.intent_score[1]
           detected_intents == response.intent_analysis.detected_intents
       IN  response.risk_assessment.score =
              IF intent_score > (3 * Scale) \div 10
              THEN Max(pattern_score, intent_score)
              ELSE IF intent_score = 0 /\ detected_intents = <<>>
              THEN Min(pattern_score, (3 * Scale) \div 10)
              ELSE pattern_score

\* the intent score is 0 with a detected category and the pattern score,
\* above 0.3, is the final score
C18_Witness ==
    /\ ModeratedWithIntent
    /\ response.risk_assessment.intent_score = <<0>>
    /\ response.intent_analysis.detected_intents # <<>>
    /\ response.risk_assessment.pattern_score > (3 * Scale) \div 10
    /\ response.risk_assessment.score = response.risk_assessment.pattern_score

\* the other cases of the rule, each with a score the case decides
C18_OverrideCase ==
    /\ ModeratedWithIntent
    /\ response.risk_assessment.intent_score[1] > (3 * Scale) \div 10
    /\ response.risk_assessment.pattern_score > response.risk_assessment.intent_score[1]

C18_CapCase ==
    /\ ModeratedWithIntent
    /\ response.risk_assessment.intent_score = <<0>>
    /\ response.intent_analysis.detected_intents = <<>>
    /\ response.risk_assessment.pattern_score > (3 * Scale) \div 10
    /\ response.risk_assessment.score = (3 * Scale) \div 10

C18_LowIntentCase ==
    /\ ModeratedWithIntent
    /\ response.risk_assessment.intent_score[1] > 0
    /\ response.risk_assessment.intent_score[1] <= (3 * Scale) \div 10
    /\ response.risk_assessment.pattern_score > (3 * Scale) \div 10
    /\ response.risk_assessment.score = response.risk_assessment.pattern_score

\* the trigger terms of the category the lower-cased sentence contains
TermsIn(sent_text, category) ==
    {k \in 1..Len(problematic_terms[category]) :
        Contains(sent_text, problematic_terms[category][k])}

\* the flag of a category after one match in the sentence, as the rule
\* states it
MatchRule(flag, sent, negated) ==
    IF negated
    THEN [detected   |-> flag.detected,
          confidence |-> IF flag.confidence - (3 * Scale) \div 10 > 0
                         THEN flag.confidence - (3 * Scale) \div 10 ELSE 0,
          context    |-> "Negated: '" \o Strip(sent) \o "'"]
    ELSE [detected   |-> TRUE,
          confidence |-> IF flag.confidence + (7 * Scale) \div 10 < Scale
                         THEN flag.confidence + (7 * Scale) \div 10 ELSE Scale,
          context    |-> "Asserted: '" \o Strip(sent) \o "'"]

\* the rule applied n times
RECURSIVE MatchRuleTimes(_, _, _, _)
MatchRuleTimes(flag, sent, negated, n) ==
    IF n = 0 THEN flag
    ELSE MatchRuleTimes(MatchRule(flag, sent, negated), sent, negated, n - 1)

\* C19: each match of a trigger term of a category in a sentence applies
\* exactly one update to that category: with a negation cue in the sentence
\* the confidence becomes max(0, confidence - 0.3), detected is unchanged and
\* the context records the sentence as negated; without one the confidence
\* becomes min(1, confidence + 0.7), detected becomes true and the context
\* records the sentence as asserted; the other categories are unchanged.
\* Hence after a sentence each category has had one update per matching term.
C19_OneUpdatePerMatch ==
    sent_no >= 1
    => LET sent == doc[sent_no]
           sent_text == Lower(sent)
           negated == has_negation(sent_text)
       IN  /\ \A category \in DOMAIN problematic_terms :
                \A k \in 1..Len(problematic_terms[category]) :
                   LET after == term_step(flags_before, sent, sent_text, negated,
                                          category, problematic_terms[category][k])
                   IN  /\ after[category] =
                             IF k \in TermsIn(sent_text, category)
                             THEN MatchRule(flags_before[category], sent, negated)
                             ELSE flags_before[category]
                       /\ \A other \in DOMAIN after \ {category} :
                             after[other] = flags_before[other]
           /\ \A category \in DOMAIN intent_flags :
                intent_flags[category] =
                   MatchRuleTimes(flags_before[category], sent, negated,
                                  Cardinality(TermsIn(sent_text, category)))

\* a sentence with a negation cue and two terms of a category an earlier
\* sentence asserted, next to a category without a match
C19_Witness ==
    /\ sent_no >= 2
    /\ has_negation(Lower(doc[sent_no]))
    /\ \E category \in DOMAIN intent_flags :
          /\ Cardinality(TermsIn(Lower(doc[sent_no]), category)) = 2
          /\ flags_before[category].detected
          /\ flags_before[category].confidence = (7 * Scale) \div 10
          /\ intent_flags[category].confidence = Scale \div 10
    /\ \E category \in DOMAIN intent_flags :
          /\ TermsIn(Lower(doc[sent_no]), category) = {}
          /\ flags_before[category].detected

\* an asserted match has raised the confidence of a category
C19_AssertedCase ==
    /\ sent_no >= 1
    /\ ~has_negation(Lower(doc[sent_no]))
    /\ \E category \in DOMAIN intent_flags :
          /\ Cardinality(TermsIn(Lower(doc[sent_no]), category)) = 1
          /\ ~flags_before[category].detected
          /\ intent_flags[category].confidence = (7 * Scale) \div 10

\* C20: after all sentences are processed the intent analysis reports as
\* confidence the maximum of the four category confidences, as overall risk
\* HIGH if that maximum is above 0.6, MEDIUM if it is above 0.3 and LOW
\* otherwise, and as detected intents exactly the categories whose detected
\* flag is true
C20_ResultFromFinalFlags ==
    (pc = "done" /\ sent_no = Len(doc))
    => /\ DOMAIN intent_flags = {"violence", "harassment", "hate", "threat"}
       /\ \A category \in DOMAIN intent_flags :
             intent_flags[category].confidence <= response.confidence
       /\ \E category \in DOMAIN intent_flags :
             intent_flags[category].confidence = response.confidence
       /\ response.overall_risk =
             IF response.confidence > (6 * Scale) \div 10 THEN "HIGH"
             ELSE IF response.confidence > (3 * Scale) \div 10 THEN "MEDIUM"
             ELSE "LOW"
       /\ {response.detected_intents[k] : k \in 1..Len(response.detected_intents)}
             = {category \in DOMAIN intent_flags : intent_flags[category].detected}
       /\ \A k \in 1..Len(response.detected_intents) :
             \A l \in 1..Len(response.detected_intents) :
                response.detected_intents[k] = response.detected_intents[l] => k = l

\* a result of MEDIUM risk: the maximum is the confidence of a category
\* that is not the first one, detected next to categories that are not
C20_Witness ==
    /\ pc = "done"
    /\ sent_no = Len(doc)
    /\ response.overall_risk = "MEDIUM"
    /\ response.confidence = (4 * Scale) \div 10
    /\ response.detected_intents = <<"hate">>
    /\ intent_flags["violence"].confidence < response.confidence

\* the other levels of the overall risk
C20_HighCase ==
    /\ pc = "done"
    /\ response.overall_risk = "HIGH"
    /\ Len(response.detected_intents) = 2
    /\ \E category \in DOMAIN intent_flags :
          /\ intent_flags[category].detected
          /\ intent_flags[category].confidence < response.confidence

C20_LowCase ==
    /\ pc = "done"
    /\ response.overall_risk = "LOW"
    /\ response.confidence = Scale \div 10
    /\ response.detected_intents # <<>>

\* the number of tags of the entries k.. of a pattern result, each weighted
\* by a tenth of the weight of its category
RECURSIVE WeightedTags(_, _)
WeightedTags(pattern_matches, k) ==
    IF k > Len(pattern_matches) THEN 0
    ELSE LET category == pattern_matches[k].category
             weight == CASE category = "ContentWarning" -> 2
                         [] category = "Violation" -> 8
                         [] category = "Quality" -> 4
                         [] category = "Safety" -> 10
                         [] OTHER -> 0
         IN  Len(pattern_matches[k].tags) * weight * (Scale \div 100)
             + WeightedTags(pattern_matches, k + 1)

\* the pattern score of a pattern result and a sentiment, with the sum
\* clamped at both ends
clamped_pattern_score(pattern_matches, label, confidence) ==
    LET sum == WeightedTags(pattern_matches, 1)
               + (CASE label = "NEGATIVE" -> (confidence * 4) \div 10
                    [] label = "POSITIVE" -> -(confidence \div 10)
                    [] OTHER -> 0)
    IN  IF sum < 0 THEN 0 ELSE IF sum > Scale THEN Scale ELSE sum

\* C21: the pattern score is the sum over the categories of the pattern
\* result of tagCount * weight * 0.1, plus confidence * 0.4 for NEGATIVE
\* sentiment, minus confidence * 0.1 for POSITIVE sentiment, clamped to
\* [0, 1] at both ends
C21_PatternScoreFormula ==
    /\ (AnsweredOk("moderate") /\ request.include_sentiment)
       => response.risk_assessment.pattern_score =
             clamped_pattern_score(response.suggested_tags,
                                   response.sentiment.label,
                                   response.sentiment.confidence)
    /\ (AnsweredOk("moderate") /\ ~request.include_sentiment)
       => response.risk_assessment.pattern_score =
             clamped_pattern_score(response.suggested_tags, "NEUTRAL", Scale \div 2)
    /\ (TextListAnswered("batch-moderate") /\ response.status = 200
        /\ request.include_sentiment)
       => \A k \in MatchedItems :
             response.results[k].risk_assessment.score =
                clamped_pattern_score(response.results[k].suggested_tags,
                                      response.results[k].sentiment.label,
                                      response.results[k].sentiment.confidence)

\* the words of a list the lower-cased text contains, counted as the
\* provider counts them
ListCount(text, words) ==
    Cardinality({w \in words : Contains(Lower(text), w)})

\* the result the rule gives for the counts p and n
LexiconRule(p, n) ==
    IF p > n
    THEN [label |-> "POSITIVE",
          confidence |-> IF 6 * (Scale \div 10) + (p - n) * (Scale \div 10) < 9 * (Scale \div 10)
                         THEN 6 * (Scale \div 10) + (p - n) * (Scale \div 10)
                         ELSE 9 * (Scale \div 10),
          source |-> "pattern_based"]
    ELSE IF n > p
    THEN [label |-> "NEGATIVE",
          confidence |-> IF 6 * (Scale \div 10) + (n - p) * (Scale \div 10) < 9 * (Scale \div 10)
                         THEN 6 * (Scale \div 10) + (n - p) * (Scale \div 10)
                         ELSE 9 * (Scale \div 10),
          source |-> "pattern_based"]
    ELSE [label |-> "NEUTRAL", confidence |-> Scale \div 2, source |-> "pattern_based"]

\* analyze has answered with the result of the lexicon provider
LexiconAnswered ==
    /\ AnsweredOk("analyze")
    /\ invoked # <<>>
    /\ invoked[Len(invoked)] = "lexicon"

\* C22: from the positive count p and the negative count n of the text the
\* lexicon provider returns POSITIVE with confidence min(0.6 + 0.1*(p-n), 0.9)
\* when p > n, NEGATIVE with confidence min(0.6 + 0.1*(n-p), 0.9) when
\* n > p, and NEUTRAL with confidence 0.5 when p = n, always with the source
\* "pattern_based"
C22_LexiconRule ==
    LexiconAnswered
    => LET p == ListCount(request.text.str, positive_words)
           n == ListCount(request.text.str, negative_words)
           rule == LexiconRule(p, n)
       IN  /\ response.sentiment = rule.label
           /\ response.confidence = rule.confidence
           /\ response.source = rule.source

\* a text with five words of one list, where the cap decides the confidence
C22_Witness ==
    /\ LexiconAnswered
    /\ ListCount(request.text.str, negative_words) = 5
    /\ ListCount(request.text.str, positive_words) = 0
    /\ response.sentiment = "NEGATIVE"
    /\ response.confidence = 9 * (Scale \div 10)

\* the other cases of the rule
C22_TieCase ==
    /\ LexiconAnswered
    /\ ListCount(request.text.str, negative_words) = 1
    /\ ListCount(request.text.str, positive_words) = 1
    /\ response.sentiment = "NEUTRAL"

C22_BelowCapCase ==
    /\ LexiconAnswered
    /\ ListCount(request.text.str, positive_words) = 2
    /\ response.sentiment = "POSITIVE"
    /\ response.confidence = 8 * (Scale \div 10)

\* the number of occurrences of the words of a list in the lower-cased text
Occurrences(text, words) ==
    Cardinality({h \in (1..Len(text)) \X words : OccursAt(Lower(text), h[2], h[1])})

\* C23: the positive count and the negative count of the lexicon provider
\* are the numbers of occurrences of list words in the text, so that a text
\* that repeats one positive word k times has positive count k and, with no
\* negative word, confidence min(0.6 + 0.1*k, 0.9)
C23_CountsAreOccurrences ==
    LexiconAnswered
    => LET p == Occurrences(request.text.str, positive_words)
           n == Occurrences(request.text.str, negative_words)
           rule == LexiconRule(p, n)
       IN  /\ response.sentiment = rule.label
           /\ response.confidence = rule.confidence

\* analyze has answered with the result of the external provider
ExternalAnswered ==
    /\ AnsweredOk("analyze")
    /\ invoked = <<"external">>

\* the magnitude of a number
Magnitude(x) == IF x < 0 THEN -x ELSE x

C24_NeutralCase ==
    /\ ExternalAnswered
    /\ request.ext.vader = Scale \div 10
    /\ response.sentiment = "NEUTRAL"
    /\ response.confidence = (779 * Scale) \div 1000

C24_CappedCase ==
    /\ ExternalAnswered
    /\ request.ext.vader = -Scale
    /\ response.sentiment = "NEGATIVE"
    /\ response.confidence = (95 * Scale) \div 100

\* the elements of a finite set of numbers in increasing order
RECURSIVE Ascending(_)
Ascending(S) ==
    IF S = {} THEN <<>>
    ELSE LET least == CHOOSE x \in S : \A y \in S : x <= y
         IN  <<least>> \o Ascending(S \ {least})

\* the rules of tag j of category c that match the lower-cased text
MatchingRules(t, c, j) ==
    {r \in 1..Len(SYSTEM_TAG_PATTERNS[c].tags[j].patterns) :
        re_search(SYSTEM_TAG_PATTERNS[c].tags[j].patterns[r], t)}

\* the tags of category c with a matching rule
MatchingTags(t, c) ==
    {j \in 1..Len(SYSTEM_TAG_PATTERNS[c].tags) : MatchingRules(t, c, j) # {}}

\* the pattern result the taxonomy prescribes for the first n categories
PrescribedMatches(t, n) ==
    LET categories == Ascending({c \in 1..n : MatchingTags(t, c) # {}})
    IN  [i \in 1..Len(categories) |->
            LET tags == Ascending(MatchingTags(t, categories[i]))
            IN  [category |-> SYSTEM_TAG_PATTERNS[categories[i]].category,
                 tags |-> [j \in 1..Len(tags) |->
                              SYSTEM_TAG_PATTERNS[categories[i]].tags[tags[j]].tag]]]

\* C25: the pattern result contains exactly the categories that have a tag
\* with a matching rule, each with exactly its matching tags, each tag once
\* however many of its rules match, in the order of the taxonomy; a category
\* without a matching tag is absent
C25_ExactlyTheMatchingTags ==
    /\ scan.k >= 1 => scan.matches = PrescribedMatches(scan.text_lower, scan.k - 1)
    /\ pc = "done"
       => /\ response.matches = PrescribedMatches(scan.text_lower, Len(SYSTEM_TAG_PATTERNS))
          /\ \A i \in 1..Len(response.matches) : response.matches[i].tags # <<>>

\* a result with three tags of one category, the first of them with two
\* matching rules, and without the category Quality
C25_Witness ==
    /\ pc = "done"
    /\ \E i \in 1..Len(response.matches) :
          /\ response.matches[i].category = "Violation"
          /\ response.matches[i].tags = <<"Harassment", "Hate Speech", "Misinformation">>
    /\ Cardinality(MatchingRules(scan.text_lower, 2, 1)) = 2
    /\ \A i \in 1..Len(response.matches) : response.matches[i].category # "Quality"
    /\ Len(response.matches) >= 2

\* a sentence of the text asserts a trigger term of the category: it has
\* the term and no negation cue
AssertedIn(sents, category) ==
    \E k \in 1..Len(sents) :
        /\ HasTerm(Lower(sents[k]), category)
        /\ ~has_negation(Lower(sents[k]))

\* C26: negated mentions never fully cancel an assertion elsewhere in the
\* text: when a sentence asserts a trigger term of a category, the final
\* confidence of the category is above 0, however many negated matches of
\* the category the other sentences have
C26_AssertionNeverCancelled ==
    (pc = "done" /\ sent_no = Len(doc))
    => \A category \in DOMAIN intent_flags :
          AssertedIn(doc, category)
          => response.intent_details[category].confidence > 0

\* the places of the text where a link starts
LinkStarts(text) ==
    {i \in 1..Len(text) :
        OccursAt(Lower(text), "http://", i) \/ OccursAt(Lower(text), "https://", i)}

\* the pattern result has the tag in the category
HasTag(pattern_matches, category, tag) ==
    \E i \in 1..Len(pattern_matches) :
        /\ pattern_matches[i].category = category
        /\ \E j \in 1..Len(pattern_matches[i].tags) : pattern_matches[i].tags[j] = tag

\* C27: every text with three or more links (http:// or https://), the
\* links separated by whitespace included, is tagged Spam in the category
\* Quality
C27_ThreeLinksAreSpam ==
    pc = "done"
    => (Cardinality(LinkStarts(scan.text_lower)) >= 3
        => HasTag(response.matches, "Quality", "Spam"))

\* the text has a run of n equal characters
HasRun(text, n) ==
    \E i \in 1..(Len(text) - n + 1) :
        \A j \in i..(i + n - 1) : Ch(text, j) = Ch(text, i)

\* C28: every text with a run of 10 or more identical consecutive characters
\* is tagged Spam in the category Quality, a run of exactly 10 included
C28_RunOfTenIsSpam ==
    pc = "done"
    => (HasRun(scan.text_lower, 10) => HasTag(response.matches, "Quality", "Spam"))

\* the flags after the first k terms of a category have been tested against
\* the sentence, starting from flags
RECURSIVE AfterTerms(_, _, _, _, _, _)
AfterTerms(flags, sent, sent_text, negated, category, k) ==
    IF k = 0 THEN flags
    ELSE term_step(AfterTerms(flags, sent, sent_text, negated, category, k - 1),
                   sent, sent_text, negated, category, problematic_terms[category][k])

\* the flags at every point of the loops over the sentence from category c
\* on, starting from flags
RECURSIVE PointsFrom(_, _, _, _, _)
PointsFrom(flags, sent, sent_text, negated, c) ==
    IF c > Len(intent_categories) THEN {}
    ELSE LET terms == Len(problematic_terms[intent_categories[c]])
         IN  {AfterTerms(flags, sent, sent_text, negated, intent_categories[c], k) :
                 k \in 0..terms}
             \cup PointsFrom(AfterTerms(flags, sent, sent_text, negated,
                                        intent_categories[c], terms),
                             sent, sent_text, negated, c + 1)

\* the flags at every point of the loops over the last sentence processed
PointsOfSentence ==
    PointsFrom(flags_before, doc[sent_no], Lower(doc[sent_no]),
               has_negation(Lower(doc[sent_no])), 1)

\* the properties of the flags at one point
FlagsInvariant(flags) ==
    \A category \in DOMAIN flags :
        /\ 0 <= flags[category].confidence
        /\ flags[category].confidence <= Scale
        /\ flags[category].confidence > 0 => flags[category].detected
        /\ flags_before[category].detected => flags[category].detected

\* C29: at every point of the intent analysis, after each processed term
\* match, each of the four flags has 0 <= confidence <= 1 and is detected
\* when its confidence is above 0, and a detected flag is never reset by a
\* later sentence; hence the overall confidence is positive only if some
\* category is detected
C29_FlagsInvariant ==
    /\ DOMAIN intent_flags = {"violence", "harassment", "hate", "threat"}
    /\ FlagsInvariant(intent_flags)
    /\ sent_no >= 1
       => /\ \A flags \in PointsOfSentence : FlagsInvariant(flags)
          /\ intent_flags \in PointsOfSentence
    /\ pc = "done"
       => (response.confidence > 0 => response.detected_intents # <<>>)

\* detected with confidence 0: a category asserted by one sentence has lost
\* all its confidence to the negated matches of a later one
C29_Witness ==
    /\ pc = "done"
    /\ sent_no = 2
    /\ \E category \in DOMAIN intent_flags :
          /\ intent_flags[category].detected
          /\ intent_flags[category].confidence = 0
          /\ flags_before[category].confidence > 0
    /\ response.confidence = 0
    /\ response.detected_intents # <<>>

\* the element batch-moderate returns for the text of the moderate request
\* in hand, with the same include_sentiment and the same behaviour of the
\* external libraries
SameTextInBatch ==
    batch_item(request.text, request.include_sentiment, request.ext).result

\* C30: moderate and batch-moderate apply one risk policy: for every
\* non-empty text and the same include_sentiment the element batch-moderate
\* returns has the score, the level and the requires_review moderate returns,
\* without and with the intent analysis
C30_OneRiskPolicy ==
    AnsweredOk("moderate")
    => /\ SameTextInBatch.risk_assessment.score = response.risk_assessment.score
       /\ SameTextInBatch.risk_assessment.level = response.risk_assessment.level
       /\ SameTextInBatch.requires_review = response.requires_review

\* the three parts of the policy without the intent analysis
C30_SameScoreWithoutIntent ==
    (AnsweredOk("moderate") /\ ~response.intent_analysis.intent_analysis_available)
    => SameTextInBatch.risk_assessment.score = response.risk_assessment.score

C30_SameLevelWithoutIntent ==
    (AnsweredOk("moderate") /\ ~response.intent_analysis.intent_analysis_available)
    => SameTextInBatch.risk_assessment.level = response.risk_assessment.level

C30_SameReviewWithoutIntent ==
    (AnsweredOk("moderate") /\ ~response.intent_analysis.intent_analysis_available)
    => SameTextInBatch.requires_review = response.requires_review

====
